---- MODULE Spec2Model ----
(***************************************************************************)
(* Model of the Diagnostics Bridge of oxlint-tailwind:                     *)
(* src/src/services/tailwind-lsp-client.ts, class TailwindLspClient.       *)
(*                                                                         *)
(* Two specifications share the definitions of the client's handlers:      *)
(*   FrameSpec  feeds byte streams, cut into arbitrary chunks, to onData;  *)
(*   Spec       runs sessions: callers, the spawned language servers, the  *)
(*              pipes between them, the 1200 ms timers and the JavaScript  *)
(*              job queue.                                                 *)
(*                                                                         *)
(* Bytes are one-character strings.  Positions in a byte sequence are      *)
(* 1-based here and 0-based in the source, so "not found" is 0 instead of  *)
(* -1 and the first body byte is at headerEnd + 4 in both.                  *)
(***************************************************************************)
EXTENDS Integers, Sequences, FiniteSets, TLC

\* ------------------------------------------------------------------ bounds
\* Segments per byte stream in FrameSpec.
MaxSegs == 3
\* Spec: concurrent callers of the bridge, calls they may make in all,
\* processes the bridge may spawn, messages the servers may write in all.
NCallers == 2
MaxCalls == 3
MaxProcs == 3
MaxOut == 3
\* Spec: calls made plus messages written by the servers.
MaxWork == 4
\* Spec: where the pipe may cut a read short (FrameSpec cuts anywhere).
SplitAt == 10

\* ---------------------------------------------------------------- messages
\* LspMessage (line 4) as the server sends it.  id = 0 stands for "no id";
\* result = "none" for "no result field"; method = "" for "no method";
\* diags names the params.diagnostics value: two distinct non-empty lists
\* "D1" and "D2", the empty list "[]", or "none" when the field is absent.
URIs == {"u1", "u2"}
DiagLists == {"D1", "D2"}
\* The result a server puts in its replies: process p answers "caps<p>".
ResultOf(p) == "caps" \o ToString(p)
Results == {ResultOf(p) : p \in 1..MaxProcs}
PublishDiagnostics == "textDocument/publishDiagnostics"

Reply(i, r) == [id |-> i, result |-> r, method |-> "", uri |-> "", diags |-> "none"]

\* A message with an id and no result field (a JSON-RPC error reply).
ErrorReply(i) == [id |-> i, result |-> "none", method |-> "", uri |-> "", diags |-> "none"]

Push(u, d) == [id |-> 0, result |-> "none", method |-> PublishDiagnostics, uri |-> u, diags |-> d]

\* Request ids are issued once per spawn at most (start, initialize).
ServerMsgs ==
  {Reply(i, r) : i \in 1..MaxProcs, r \in Results} \cup {ErrorReply(i) : i \in 1..MaxProcs}
    \cup {Push(u, d) : u \in URIs, d \in DiagLists \cup {"none"}}

\* ----------------------------------------------------------- JSON payloads
\* The payload text of a message: an opening brace, one byte that stands for
\* the object's members, a closing brace.  JSON.parse (line 55) gives the
\* message back for exactly these texts and throws a SyntaxError for every
\* other byte sequence.
Members(m) ==
  IF m.method = ""
    THEN (IF m.result = "none" THEN "e" ELSE "r" \o m.result) \o ToString(m.id)
    ELSE "p" \o m.uri \o m.diags

Stringify(m) == <<"{", Members(m), "}">>

Parsable(body) ==
  /\ Len(body) = 3
  /\ body[1] = "{"
  /\ body[3] = "}"
  /\ \E m \in ServerMsgs : Members(m) = body[2]

JSONparse(body) == CHOOSE m \in ServerMsgs : Members(m) = body[2]

\* ------------------------------------------------------------------ framing
CR == "\r"
LF == "\n"
Terminator == <<CR, LF, CR, LF>>

\* Buffer.indexOf (line 45): the first position where pat occurs in s, 0 if none.
OccursAt(s, pat, i) == \A k \in 1..Len(pat) : s[i + k - 1] = pat[k]

RECURSIVE IndexFrom(_, _, _)
IndexFrom(s, pat, i) ==
  IF i + Len(pat) - 1 > Len(s) THEN 0
  ELSE IF OccursAt(s, pat, i) THEN i
  ELSE IndexFrom(s, pat, i + 1)

IndexOf(s, pat) == IndexFrom(s, pat, 1)

\* The regular expression of line 48, /Content-Length:\s*(\d+)/i.
Keyword == <<"c", "o", "n", "t", "e", "n", "t", "-", "l", "e", "n", "g", "t", "h", ":">>

Lower(ch) ==
  CASE ch = "C" -> "c" [] ch = "O" -> "o" [] ch = "N" -> "n" [] ch = "T" -> "t"
    [] ch = "E" -> "e" [] ch = "L" -> "l" [] ch = "G" -> "g" [] ch = "H" -> "h"
    [] OTHER -> ch

IsSpace(ch) == ch \in {" ", "\t", CR, LF}
IsDigit(ch) == ch \in {"0", "1", "2", "3", "4", "5", "6", "7", "8", "9"}

DigitVal(ch) ==
  CASE ch = "0" -> 0 [] ch = "1" -> 1 [] ch = "2" -> 2 [] ch = "3" -> 3 [] ch = "4" -> 4
    [] ch = "5" -> 5 [] ch = "6" -> 6 [] ch = "7" -> 7 [] ch = "8" -> 8 [] ch = "9" -> 9

\* The first position at or after i that holds no white space (\s* is greedy).
RECURSIVE SkipSpaces(_, _)
SkipSpaces(h, i) == IF i <= Len(h) /\ IsSpace(h[i]) THEN SkipSpaces(h, i + 1) ELSE i

\* parseInt(m[1], 10) of the longest run of digits starting at i (line 50).
RECURSIVE DigitsFrom(_, _, _)
DigitsFrom(h, i, acc) ==
  IF i <= Len(h) /\ IsDigit(h[i]) THEN DigitsFrom(h, i + 1, acc * 10 + DigitVal(h[i])) ELSE acc

\* The pattern matches at position i of the header.
MatchAt(h, i) ==
  /\ i + Len(Keyword) - 1 <= Len(h)
  /\ \A k \in 1..Len(Keyword) : Lower(h[i + k - 1]) = Keyword[k]
  /\ LET j == SkipSpaces(h, i + Len(Keyword)) IN j <= Len(h) /\ IsDigit(h[j])

\* header.match(...) and parseInt (lines 48-50): the declared length of the
\* leftmost match, or -1 when the header does not match (m is null).
RECURSIVE MatchFrom(_, _)
MatchFrom(h, i) ==
  IF i > Len(h) THEN -1
  ELSE IF MatchAt(h, i) THEN DigitsFrom(h, SkipSpaces(h, i + Len(Keyword)), 0)
  ELSE MatchFrom(h, i + 1)

ContentLength(h) == MatchFrom(h, 1)

\* Line 49: the header has no usable length; drop it and its terminator.
DiscardWholeBuffer(b, headerEnd) == <<>>

DiscardMalformed(b, headerEnd) == SubSeq(b, headerEnd + 4, Len(b))

\* The loop of onData (lines 44-57) on buffer b, ms being the messages handed
\* to onMessage so far.  threw: JSON.parse raised, which leaves onData with
\* the frame already cut off the buffer (line 54 precedes line 55).
RECURSIVE FrameLoop(_, _)
FrameLoop(b, ms) ==
  LET headerEnd == IndexOf(b, Terminator)
  IN IF headerEnd = 0 THEN [buf |-> b, msgs |-> ms, threw |-> FALSE]
     ELSE
       LET header == SubSeq(b, 1, headerEnd - 1)
           len == ContentLength(header)
           start == headerEnd + 4
       IN IF len = -1 THEN FrameLoop(DiscardMalformed(b, headerEnd), ms)
          ELSE IF Len(b) < start - 1 + len THEN [buf |-> b, msgs |-> ms, threw |-> FALSE]
          ELSE
            LET body == SubSeq(b, start, start + len - 1)
                rest == SubSeq(b, start + len, Len(b))
            IN IF Parsable(body)
                 THEN FrameLoop(rest, Append(ms, JSONparse(body)))
                 ELSE [buf |-> rest, msgs |-> ms, threw |-> TRUE]

\* onData (lines 42-58): append the chunk, then run the loop.
OnData(b, chunk) == FrameLoop(b \o chunk, <<>>)

\* ------------------------------------------------------------- wire format
\* What a language server writes for message m: the header with the byte
\* length of the payload, the terminator, the payload.
Digit(n) == CHOOSE ch \in {"0", "1", "2", "3", "4", "5", "6", "7", "8", "9"} : DigitVal(ch) = n
LengthHeader == <<"C", "o", "n", "t", "e", "n", "t", "-", "L", "e", "n", "g", "t", "h", ":", " ">>
Encode(m) == LengthHeader \o <<Digit(Len(Stringify(m)))>> \o Terminator \o Stringify(m)

\* ------------------------------------------------------------------ session
Callers == 1..NCallers
Procs == 1..MaxProcs

VARIABLES
  \* TailwindLspClient fields (lines 8-13); proc = 0 is null
  proc, nextId, pending, buf, initialized, diagListeners,
  \* the spawned processes: their state, the messages written to their stdin,
  \* the bytes they wrote to stdout that the client has not read yet, and the
  \* number of messages they wrote in all
  status, wlog, out, sent,
  \* the callers: where each is in getCanonicalDiagnostics / start, which of
  \* the two it called, its uri argument, the number of its call, the state
  \* of its diagsPromise (all three only while the call runs), and what its
  \* last finished call returned
  pc, kind, uri, callNo, diag, result,
  \* armed setTimeout callbacks (line 105) and the promise job queue
  timers, mq,
  \* history: request ids whose promise was resolved, and the value of each;
  \* for each caller, the list carried by the wake source that fired first
  \* for its running call ("-" while none has)
  acked, first,
  \* history of onData: whether it ever threw, and (FrameSpec) the segments
  \* of the byte stream, the bytes fed so far and the messages handed to
  \* onMessage
  threw, segs, fed, handed,
  \* DetectSpec and FixSpec: the fragment text, how far its processing is,
  \* the detect entry point used, the conflicts detect returned, the conflict
  \* a fix was asked for with the fixer method used, and the fragment after
  \* the fix was applied once and twice
  input, stage, path, conflicts, chosen, fixed, refixed,
  \* SuggestSpec: the token list an extraction returned and the suggestions
  \* getCanonicalSuggestionsSync returned
  tokens, suggestions,
  \* ValidatorSpec: the isInitialized fields of the validator and of its
  \* service, the calls suspended at an await, the getClassesInfo call in
  \* progress, and as history the lifecycle call that returned last and the
  \* query that returned last
  isInitialized, serviceIsInitialized, flying, info, lifecycle, lastQuery

clientVars == <<proc, nextId, pending, buf, initialized, diagListeners>>
envVars == <<status, wlog, out, sent>>
callVars == <<pc, kind, uri, callNo, diag, result>>
frameVars == <<segs, fed, handed>>
textVars == <<input, stage, path, conflicts, chosen, fixed, refixed>>
suggestVars == <<tokens, suggestions>>
validatorVars == <<isInitialized, serviceIsInitialized, flying, info, lifecycle, lastQuery>>
vars ==
  <<clientVars, envVars, callVars, timers, mq, acked, first, threw, frameVars, textVars,
    suggestVars, validatorVars>>

NoListener == [c |-> 0, n |-> 0]

\* No fragment is being processed.
NoConflict == [classes |-> <<>>, reason |-> "", fixable |-> FALSE, suggestedFix |-> <<>>]
NoText ==
  /\ input = <<>> /\ stage = "none" /\ path = "none" /\ conflicts = <<>>
  /\ chosen = [by |-> "none", conflict |-> NoConflict]
  /\ fixed = <<>> /\ refixed = <<>>

\* Nothing was extracted or suggested yet.
NoTokens == [by |-> "none", list |-> <<>>]
NoSuggestions == [called |-> FALSE, list |-> <<>>]
NoSuggestion == tokens = NoTokens /\ suggestions = NoSuggestions

\* The validator as its constructor leaves it (tailwind-validator.ts, lines
\* 30 and 32-42; its service: part_000, lines 29 and 31-34), no call made.
\* lifecycle.last names the initialize or shutdown call that returned last;
\* lifecycle.overlapped tells whether one of them was ever called while
\* another one had not returned.
NoInfo == [names |-> <<>>, at |-> 0, results |-> <<>>, after |-> "constructed", alone |-> FALSE]
NoQuery ==
  [op |-> "none", className |-> <<>>, error |-> "", value |-> <<>>, infos |-> <<>>,
   after |-> "constructed", alone |-> FALSE]
Constructed ==
  /\ isInitialized = FALSE /\ serviceIsInitialized = FALSE
  /\ flying = [initialize |-> 0, shutdown |-> 0]
  /\ info = NoInfo /\ lastQuery = NoQuery
  /\ lifecycle = [last |-> "constructed", overlapped |-> FALSE]

\* -------------------------------------------------------------- onMessage
\* The part of the state that onMessage and the promise reactions it starts
\* can change.
Tables == [pending |-> pending, diag |-> diag, mq |-> mq, acked |-> acked]

\* Promise resolve functions act once: resolving a settled promise, or the
\* promise of an earlier call, changes nothing.  cb is the diagListeners
\* entry or the timer that calls resolve (lines 103 and 105).
ResolveDiagsAgain(t, cb, d) ==
  [t EXCEPT !.diag[cb.c] = d, !.mq = Append(t.mq, [c |-> cb.c, k |-> "diagCont"])]

ResolveDiags(t, cb, d) ==
  IF callNo[cb.c] = cb.n /\ t.diag[cb.c] = "waiting"
    THEN [t EXCEPT !.diag[cb.c] = d, !.mq = Append(t.mq, [c |-> cb.c, k |-> "diagCont"])]
    ELSE t

\* params.diagnostics || [] (line 68)
DiagsOf(m) == IF m.diags = "none" THEN "[]" ELSE m.diags

\* Lines 62-63: resolve the pending request with this id and remove it.
ResolvePending(t, m) ==
  LET hit == {e \in t.pending : e.id = m.id}
  IN IF hit = {} THEN t
     ELSE LET e == CHOOSE x \in hit : TRUE
          IN [t EXCEPT !.pending = t.pending \ {e},
                       !.mq = Append(t.mq, [c |-> e.c, k |-> "initCont"]),
                       !.acked = t.acked \cup {[id |-> e.id, value |-> m.result]}]

\* onMessage (lines 60-73)
OnMessage(t, m) ==
  IF m.id # 0 /\ m.result # "none" THEN ResolvePending(t, m)
  ELSE IF m.method = PublishDiagnostics
    THEN LET cb == diagListeners[m.uri]
         IN IF cb # NoListener THEN ResolveDiags(t, cb, DiagsOf(m)) ELSE t
  ELSE t

RECURSIVE OnMessages(_, _)
OnMessages(t, ms) == IF ms = <<>> THEN t ELSE OnMessages(OnMessage(t, Head(ms)), Tail(ms))

\* History: the diagnostics pushes among ms, in order, for the URI under
\* which the running call of caller c is subscribed.
Subscribed(c, u) == pc[c] = "awaitDiag" /\ diagListeners[u] = [c |-> c, n |-> callNo[c]]
PushesFor(c, ms) ==
  SelectSeq(ms, LAMBDA m : m.method = PublishDiagnostics /\ m.id = 0 /\ Subscribed(c, m.uri))

\* The 'data' listener of line 23: onData on the chunk, onMessage on every
\* message it frames.
DataHandler(chunk) ==
  \E r \in {OnData(buf, chunk)} :
    \E t \in {OnMessages(Tables, r.msgs)} :
      /\ buf' = r.buf
      /\ threw' = (threw \/ r.threw)
      /\ pending' = t.pending
      /\ diag' = t.diag
      /\ mq' = t.mq
      /\ acked' = t.acked
      /\ handed' = IF segs = <<>> THEN handed ELSE handed \o r.msgs
      /\ first' = [c \in Callers |->
                     IF first[c] = "-" /\ PushesFor(c, r.msgs) # <<>>
                       THEN DiagsOf(Head(PushesFor(c, r.msgs)))
                       ELSE first[c]]

\* ------------------------------------------------------------------ writes
Entry(m, i, u) == [m |-> m, id |-> i, uri |-> u]

\* write (lines 36-40) to process p: this.proc?.stdin.write drops the
\* message when there is no process.
Write(log, p, e) == IF p = 0 THEN log ELSE [log EXCEPT ![p] = @ \cup {e}]

Spawned == {p \in Procs : status[p] # "unspawned"}

\* --------------------------------------------------------------- the client
Init ==
  /\ proc = 0 /\ nextId = 1 /\ pending = {} /\ buf = <<>> /\ initialized = FALSE
  /\ diagListeners = [u \in URIs |-> NoListener]
  /\ status = [p \in Procs |-> "unspawned"]
  /\ wlog = [p \in Procs |-> {}]
  /\ out = [p \in Procs |-> <<>>]
  /\ sent = 0
  /\ pc = [c \in Callers |-> "idle"]
  /\ kind = [c \in Callers |-> "get"]
  /\ uri = [c \in Callers |-> "u1"]
  /\ callNo = [c \in Callers |-> 0]
  /\ diag = [c \in Callers |-> "unset"]
  /\ result = [c \in Callers |-> "-"]
  /\ timers = {} /\ mq = <<>> /\ acked = {} /\ threw = FALSE
  /\ first = [c \in Callers |-> "-"]
  /\ segs = <<>> /\ fed = 0 /\ handed = <<>>
  /\ NoText /\ NoSuggestion /\ Constructed

\* initialize (lines 87-98) up to its await, called by start for caller c
\* right after process p was spawned.  The promise executor of request
\* (lines 76-79) runs at once: the id is taken, the entry stored, the
\* request written.
Initialize(c, p) ==
  IF initialized
    THEN /\ mq' = Append(mq, [c |-> c, k |-> "startCont"])
         /\ pc' = [pc EXCEPT ![c] = "job"]
         /\ UNCHANGED <<nextId, pending, wlog>>
    ELSE /\ nextId' = nextId + 1
         /\ pending' = pending \cup {[id |-> nextId, c |-> c]}
         /\ wlog' = Write(wlog, p, Entry("initialize", nextId, ""))
         /\ pc' = [pc EXCEPT ![c] = "awaitInit"]
         /\ mq' = mq

\* start (lines 19-27) up to its await, on behalf of caller c.
StartBody(c) ==
  IF proc # 0
    THEN /\ mq' = Append(mq, [c |-> c, k |-> "afterStart"])
         /\ pc' = [pc EXCEPT ![c] = "job"]
         /\ UNCHANGED <<proc, status, nextId, pending, wlog>>
    ELSE /\ Cardinality(Spawned) < MaxProcs
         /\ LET p == Cardinality(Spawned) + 1
            IN /\ proc' = p
               /\ status' = [status EXCEPT ![p] = "alive"]
               /\ Initialize(c, p)

\* Caller c may make a call: it is not inside one, and calls are left.
\* Callers are interchangeable, and so are URIs: caller c + 1 makes its first
\* call after caller c made one, and the first call of all names u1.
RECURSIVE SumTo(_, _)
SumTo(f, n) == IF n = 0 THEN 0 ELSE f[n] + SumTo(f, n - 1)
Calls == SumTo(callNo, NCallers)
MayCall(c) ==
  /\ pc[c] = "idle"
  /\ Calls < MaxCalls /\ Calls + sent < MaxWork
  /\ IF c = 1 THEN TRUE ELSE callNo[c - 1] > 0
MayName(u) == IF Calls > 0 THEN TRUE ELSE u = "u1"

\* getCanonicalDiagnostics(text, u, languageId) is called (line 100-101).
Call(c, u) ==
  /\ segs = <<>>
  /\ MayCall(c) /\ MayName(u)
  /\ kind' = [kind EXCEPT ![c] = "get"]
  /\ uri' = [uri EXCEPT ![c] = u]
  /\ callNo' = [callNo EXCEPT ![c] = @ + 1]
  /\ result' = [result EXCEPT ![c] = "-"]
  /\ diag' = [diag EXCEPT ![c] = "unset"]
  /\ first' = [first EXCEPT ![c] = "-"]
  /\ StartBody(c)
  /\ UNCHANGED <<buf, initialized, diagListeners, out, sent, timers, acked, threw, frameVars, textVars, suggestVars, validatorVars>>

\* start() is called directly.
CallStart(c) ==
  /\ segs = <<>>
  /\ MayCall(c)
  /\ kind' = [kind EXCEPT ![c] = "start"]
  /\ callNo' = [callNo EXCEPT ![c] = @ + 1]
  /\ result' = [result EXCEPT ![c] = "-"]
  /\ diag' = [diag EXCEPT ![c] = "unset"]
  /\ first' = [first EXCEPT ![c] = "-"]
  /\ StartBody(c)
  /\ UNCHANGED <<uri, buf, initialized, diagListeners, out, sent, timers, acked, threw, frameVars, textVars, suggestVars, validatorVars>>

\* require.resolve (line 21) throws when the language server is not
\* installed: start rejects, and so does the call, before anything changed.
SpawnFails(c, u) ==
  /\ segs = <<>>
  /\ MayCall(c) /\ MayName(u)
  /\ proc = 0
  /\ callNo' = [callNo EXCEPT ![c] = @ + 1]
  /\ result' = [result EXCEPT ![c] = "error"]
  /\ first' = [first EXCEPT ![c] = "-"]
  /\ UNCHANGED <<clientVars, envVars, pc, kind, uri, diag, timers, mq, acked, threw, frameVars, textVars, suggestVars, validatorVars>>

\* stop (lines 29-34).  kill() of a process that already exited does nothing.
Stop ==
  /\ segs = <<>>
  /\ IF proc = 0 THEN UNCHANGED <<proc, status, initialized>>
     ELSE /\ status' = [status EXCEPT ![proc] = IF @ = "alive" THEN "killed" ELSE @]
          /\ proc' = 0
          /\ initialized' = FALSE
  /\ UNCHANGED <<nextId, pending, buf, diagListeners, wlog, out, sent, callVars, timers, mq,
                 acked, first, threw, frameVars, textVars, suggestVars, validatorVars>>

\* ------------------------------------------------------------ promise jobs
\* initialize after its await (lines 96-97).
InitCont(c) ==
  /\ wlog' = Write(wlog, proc, Entry("initialized", 0, ""))
  /\ initialized' = TRUE
  /\ mq' = Append(Tail(mq), [c |-> c, k |-> "startCont"])
  /\ UNCHANGED <<proc, nextId, pending, buf, diagListeners, status, out, sent, callVars, timers>>

\* start after its await (line 26): it returns to whoever awaits it.
StartCont(c) ==
  /\ mq' = Append(Tail(mq), [c |-> c, k |-> "afterStart"])
  /\ UNCHANGED <<clientVars, envVars, callVars, timers>>

\* getCanonicalDiagnostics after await this.start() (lines 102-110): the
\* subscriber is stored, the timer armed, didOpen written.
Subscribe(c) ==
  /\ diagListeners' = [diagListeners EXCEPT ![uri[c]] = [c |-> c, n |-> callNo[c]]]
  /\ timers' = timers \cup {[c |-> c, n |-> callNo[c]]}
  /\ diag' = [diag EXCEPT ![c] = "waiting"]
  /\ wlog' = Write(wlog, proc, Entry("didOpen", 0, uri[c]))
  /\ pc' = [pc EXCEPT ![c] = "awaitDiag"]
  /\ mq' = Tail(mq)
  /\ UNCHANGED <<proc, nextId, pending, buf, initialized, status, out, sent, kind, uri, callNo,
                 result>>

\* A direct start() call is over.
StartDone(c) ==
  /\ pc' = [pc EXCEPT ![c] = "idle"]
  /\ result' = [result EXCEPT ![c] = "started"]
  /\ kind' = [kind EXCEPT ![c] = "get"]
  /\ mq' = Tail(mq)
  /\ UNCHANGED <<clientVars, envVars, uri, callNo, diag, timers>>

\* getCanonicalDiagnostics after await diagsPromise (lines 110-113).
DiagContKeepsSubscriber(c) ==
  /\ diagListeners' = diagListeners
  /\ wlog' = Write(wlog, proc, Entry("didClose", 0, uri[c]))
  /\ pc' = [pc EXCEPT ![c] = "idle"]
  /\ result' = [result EXCEPT ![c] = diag[c]]
  /\ diag' = [diag EXCEPT ![c] = "unset"]
  /\ uri' = [uri EXCEPT ![c] = "u1"]
  /\ mq' = Tail(mq)
  /\ UNCHANGED <<proc, nextId, pending, buf, initialized, status, out, sent, kind, callNo,
                 timers>>

DiagCont(c) ==
  /\ diagListeners' = [diagListeners EXCEPT ![uri[c]] = NoListener]
  /\ wlog' = Write(wlog, proc, Entry("didClose", 0, uri[c]))
  /\ pc' = [pc EXCEPT ![c] = "idle"]
  /\ result' = [result EXCEPT ![c] = diag[c]]
  /\ diag' = [diag EXCEPT ![c] = "unset"]
  /\ uri' = [uri EXCEPT ![c] = "u1"]
  /\ mq' = Tail(mq)
  /\ UNCHANGED <<proc, nextId, pending, buf, initialized, status, out, sent, kind, callNo,
                 timers>>

\* The job queue runs its first job.
RunJob ==
  /\ mq # <<>>
  /\ LET j == Head(mq)
     IN \/ j.k = "initCont" /\ InitCont(j.c)
        \/ j.k = "startCont" /\ StartCont(j.c)
        \/ j.k = "afterStart" /\ kind[j.c] = "get" /\ Subscribe(j.c)
        \/ j.k = "afterStart" /\ kind[j.c] = "start" /\ StartDone(j.c)
        \/ j.k = "diagCont" /\ DiagCont(j.c)
  /\ UNCHANGED <<acked, first, threw, frameVars, textVars, suggestVars, validatorVars>>

\* ------------------------------------------------------- events of the loop
\* Events are dispatched only when the job queue is empty.

\* The sizes of the chunk a read of p's stdout may return.
Cuts(p) == {Len(out[p])} \cup {k \in {SplitAt} : k < Len(out[p])}

\* 'data' on p's stdout (line 23).
DataEvent(p, k) ==
  /\ segs = <<>> /\ mq = <<>>
  /\ out[p] # <<>> /\ k \in Cuts(p)
  /\ DataHandler(SubSeq(out[p], 1, k))
  /\ out' = [out EXCEPT ![p] = SubSeq(@, k + 1, Len(@))]
  /\ UNCHANGED <<proc, nextId, initialized, diagListeners, status, wlog, sent, pc, kind, uri,
                 callNo, result, timers, segs, fed, textVars, suggestVars, validatorVars>>

\* The timer of line 105 fires: resolve([]).
TimerFire(cb) ==
  /\ segs = <<>> /\ mq = <<>>
  /\ cb \in timers
  /\ timers' = timers \ {cb}
  /\ \E t \in {ResolveDiags(Tables, cb, "[]")} : diag' = t.diag /\ mq' = t.mq
  /\ first' = [c \in Callers |->
                 IF first[c] = "-" /\ pc[c] = "awaitDiag" /\ cb = [c |-> c, n |-> callNo[c]]
                   THEN "[]" ELSE first[c]]
  /\ UNCHANGED <<clientVars, envVars, pc, kind, uri, callNo, result, acked, threw, frameVars, textVars, suggestVars, validatorVars>>

\* 'exit' of process p (line 25); the handler does not look at which process
\* exited.
ExitEvent(p) ==
  /\ segs = <<>> /\ mq = <<>>
  /\ status[p] \in {"killed", "crashed"}
  /\ status' = [status EXCEPT ![p] = "reaped"]
  /\ proc' = 0
  /\ initialized' = FALSE
  /\ UNCHANGED <<nextId, pending, buf, diagListeners, wlog, out, sent, callVars, timers, mq,
                 acked, first, threw, frameVars, textVars, suggestVars, validatorVars>>

\* ------------------------------------------------------ the language server
Requests(p) == {e.id : e \in {x \in wlog[p] : x.m = "initialize"}}
Opened(p) == {e.uri : e \in {x \in wlog[p] : x.m = "didOpen"}}

ServerWrites(p, m) ==
  /\ segs = <<>>
  /\ status[p] = "alive" /\ sent < MaxOut /\ Calls + sent < MaxWork
  /\ out' = [out EXCEPT ![p] = @ \o Encode(m)]
  /\ sent' = sent + 1
  /\ UNCHANGED <<clientVars, status, wlog, callVars, timers, mq, acked, first, threw,
                 frameVars, textVars, suggestVars, validatorVars>>

\* The server answers a request it received, with a result or without one.
ServerReply(p, i) == i \in Requests(p) /\ ServerWrites(p, Reply(i, ResultOf(p)))
ServerErrorReply(p, i) == i \in Requests(p) /\ ServerWrites(p, ErrorReply(i))

\* The server publishes diagnostics for a document it was told about.
ServerPush(p, u, d) == u \in Opened(p) /\ ServerWrites(p, Push(u, d))

\* The server exits on its own.
Crash(p) ==
  /\ segs = <<>>
  /\ status[p] = "alive"
  /\ status' = [status EXCEPT ![p] = "crashed"]
  /\ UNCHANGED <<clientVars, wlog, out, sent, callVars, timers, mq, acked, first, threw,
                 frameVars, textVars, suggestVars, validatorVars>>

Next ==
  \/ \E c \in Callers, u \in URIs : Call(c, u)
  \/ \E c \in Callers : CallStart(c)
  \/ \E c \in Callers, u \in URIs : SpawnFails(c, u)
  \/ Stop
  \/ RunJob
  \/ \E p \in Procs : \E k \in Cuts(p) : DataEvent(p, k)
  \/ \E cb \in timers : TimerFire(cb)
  \/ \E p \in Procs : ExitEvent(p)
  \/ \E p \in Procs, i \in 1..MaxProcs : ServerReply(p, i)
  \/ \E p \in Procs, i \in 1..MaxProcs : ServerErrorReply(p, i)
  \/ \E p \in Procs, u \in URIs, d \in DiagLists \cup {"none"} : ServerPush(p, u, d)
  \/ \E p \in Procs : Crash(p)

Spec == Init /\ [][Next]_vars

\* ---------------------------------------------------- claims about sessions
Initialized == Entry("initialized", 0, "")
AckedIds == {a.id : a \in acked}
DidOpens(p) == {e \in wlog[p] : e.m = "didOpen"}

\* The handshake with process p is complete: the reply to the initialize
\* request written to p was received and initialized was written to p.
Handshaken(p) == Requests(p) \cap AckedIds # {} /\ Initialized \in wlog[p]

\* C1: no didOpen is written to a process before the reply to its initialize
\* request was received and initialized was written to it, and every
\* spawned process is sent the initialize request exactly once.
C1_HandshakeBeforeDidOpen ==
  \A p \in Procs :
    /\ DidOpens(p) # {} => Handshaken(p)
    /\ p \in Spawned => Cardinality(Requests(p)) = 1

\* C2 (its safety part): a call never waits for the reply to a request that
\* cannot come any more.  The request was written to one process, no other
\* process answers it, and no timer guards the wait; when that process is
\* gone and its output is read, the call never returns.
ProcessOf(i) == {p \in Procs : i \in Requests(p)}
C2_NoCallBlockedForever ==
  \A e \in pending :
    \E p \in ProcessOf(e.id) : status[p] = "alive" \/ out[p] # <<>>

\* C3: the call returns the list of the wake source that fired first for it
\* (the first push for its URI that arrives while it is subscribed, or the
\* empty list of its timer), and nothing that fires later changes the value.
C3_FirstWakeDecides ==
  \A c \in Callers :
    /\ pc[c] = "awaitDiag" => diag[c] = IF first[c] = "-" THEN "waiting" ELSE first[c]
    /\ (pc[c] = "idle" /\ first[c] # "-") => result[c] = first[c]
    /\ (pc[c] = "idle" /\ result[c] \in DiagLists \cup {"[]"}) => result[c] = first[c]

\* A call returned the list of a push, and its timer fired as well.
C3_Witness ==
  /\ pc[1] = "idle" /\ callNo[1] = 1 /\ result[1] = "D1"
  /\ [c |-> 1, n |-> 1] \notin timers

\* C5: after stop() nothing is pending: no process handle, not ready, no
\* pending request, no subscriber, no buffered bytes.
NoPendingState ==
  /\ proc = 0 /\ ~initialized /\ pending = {} /\ buf = <<>>
  /\ \A u \in URIs : diagListeners[u] = NoListener
C5_StopClearsEverything == [][Stop => NoPendingState']_vars

\* C6: the bridge never has two children that were neither killed nor exited.
C6_OneLiveChild == Cardinality({p \in Procs : status[p] = "alive"}) <= 1

\* C7: the exit of the child clears the handle and the readiness flag, and a
\* process spawned after an exit is sent the initialize request and is
\* handshaken by the time its spawner has written didOpen.
SpawnedNow(p) == status[p] = "unspawned" /\ status'[p] = "alive"
C7_RespawnHandshakes ==
  [][/\ \A p \in Procs : ExitEvent(p) => (proc' = 0 /\ ~initialized')
     /\ \A p \in Procs :
          (SpawnedNow(p) /\ \E q \in Procs : status[q] = "reaped") => Requests(p)' # {}]_vars

\* C8: ids are issued in increasing order and never twice; a message with the
\* id of a pending request resolves that request with the message's result
\* and removes that entry and no other; a message with an id that is not
\* pending changes nothing.
PendingIds == {e.id : e \in pending}
\* The messages framed by the read of this step, if it is one.
ReadNow ==
  IF \E p \in Procs : Len(out'[p]) < Len(out[p])
    THEN LET p == CHOOSE q \in Procs : Len(out'[q]) < Len(out[q])
         IN OnData(buf, SubSeq(out[p], 1, Len(out[p]) - Len(out'[p]))).msgs
    ELSE <<>>
\* The messages of ms that carry the id of a pending request, and those of
\* them that have a result as well.
Carrying(ms) == {i \in DOMAIN ms : ms[i].id # 0 /\ ms[i].id \in PendingIds}
Answers(ms) == {i \in Carrying(ms) : ms[i].result # "none"}
FirstAnswer(ms, id) ==
  ms[CHOOSE i \in Answers(ms) : ms[i].id = id /\ \A j \in Answers(ms) : ms[j].id = id => i <= j]
IdsNeverReused ==
  /\ \A e \in pending : e.id < nextId
  /\ \A p \in Procs : \A i \in Requests(p) : i < nextId
  /\ \A p, q \in Procs : p # q => Requests(p) \cap Requests(q) = {}
  /\ \A a, b \in pending : a.id = b.id => a = b
IdsIncrease ==
  /\ nextId' >= nextId
  /\ \A e \in pending' \ pending : e.id = nextId /\ nextId' = nextId + 1
  /\ \A p \in Procs : \A i \in Requests(p)' \ Requests(p) : i = nextId
ResolvedOnce ==
  /\ acked' \ acked \subseteq
       {[id |-> e.id, value |-> FirstAnswer(ReadNow, e.id).result] : e \in pending \ pending'}
  /\ \A e \in pending \ pending' : \E a \in acked' : a.id = e.id
  /\ \A a, b \in acked' : a.id = b.id => a = b
C8_RequestIds ==
  /\ []IdsNeverReused
  /\ [][/\ IdsIncrease
        /\ pending \ pending' = {e \in pending : \E i \in Carrying(ReadNow) : ReadNow[i].id = e.id}
        /\ ResolvedOnce]_vars

\* The same for the messages that have a result (line 61): these, and only
\* these, resolve and remove the entry of their id.
RequestIdsForResults ==
  /\ []IdsNeverReused
  /\ [][/\ IdsIncrease
        /\ pending \ pending' = {e \in pending : \E i \in Answers(ReadNow) : ReadNow[i].id = e.id}
        /\ ResolvedOnce]_vars

\* C9: a subscriber in the table belongs to a call that has not returned; so
\* the table is empty whenever no call is in flight.
C9_NoDanglingSubscriber ==
  /\ \A u \in URIs :
       diagListeners[u] # NoListener =>
         LET cb == diagListeners[u]
         IN callNo[cb.c] = cb.n /\ pc[cb.c] = "awaitDiag" /\ uri[cb.c] = u
  /\ (\A c \in Callers : pc[c] = "idle") => \A u \in URIs : diagListeners[u] = NoListener

\* One call returned a pushed list, another timed out, none is in flight.
C9_Witness ==
  /\ \A c \in Callers : pc[c] = "idle"
  /\ result[1] = "D1" /\ result[2] = "[]"
  /\ \A u \in URIs : diagListeners[u] = NoListener

\* ------------------------------------------------ getCanonicalSuggestions
\* src/src/validators/canonical-suggester.ts.  The pattern-based part is the
\* same code in getCanonicalSuggestions (lines 41-46) and in
\* getCanonicalSuggestionsSync (lines 53-58); for one input it is one list.
GetCanonicalSuggestionsSync == <<"pattern">>

\* mapDiagnosticsToSuggestions (lines 292-301): D1 stands for a list with a
\* suggestCanonicalClasses diagnostic, D2 for a list without one.
MapDiagnosticsToSuggestions(d) == IF d = "D1" THEN <<"intellisense">> ELSE <<>>

\* getCanonicalSuggestions (lines 30-48) once getCanonicalDiagnostics is
\* over with r: the catch of line 39 swallows a rejection.
GetCanonicalSuggestions(r) ==
  IF r = "error" THEN GetCanonicalSuggestionsSync
  ELSE MapDiagnosticsToSuggestions(r) \o GetCanonicalSuggestionsSync

\* The call of caller c waits for the reply to a request whose process
\* crashed and left nothing to read.
CrashedInHandshake(c) ==
  /\ kind[c] = "get"
  /\ \E e \in pending :
       e.c = c /\ \A p \in ProcessOf(e.id) : status[p] = "crashed" /\ out[p] = <<>>

\* C11: when the spawn fails, the process crashes or the wait times out,
\* getCanonicalSuggestions returns, and returns the list of
\* getCanonicalSuggestionsSync: no call is left waiting for a crashed
\* process, and a call whose bridge call failed or timed out gives that list.
C11_FallbackOnBridgeFailure ==
  \A c \in Callers :
    /\ ~CrashedInHandshake(c)
    /\ (pc[c] = "idle" /\ result[c] \in {"error", "[]"}) =>
         GetCanonicalSuggestions(result[c]) = GetCanonicalSuggestionsSync

\* The part of C11 that holds: a call that did return after a failed spawn
\* or a timeout gives the list of the sync path.
FallbackWhenReturned ==
  \A c \in Callers :
    (pc[c] = "idle" /\ result[c] \in {"error", "[]"}) =>
      GetCanonicalSuggestions(result[c]) = GetCanonicalSuggestionsSync

\* --------------------------------------------------------------- FrameSpec
\* Byte streams are built from segments: frames as a server writes them, a
\* frame with a lower-case header and no blank after the colon, headers with
\* no length field or with no digits in it, a frame whose payload is not
\* JSON, and a frame that lacks its last byte.
FrameA == Encode(Push("u1", "D1"))
FrameB == Encode(Reply(1, ResultOf(1)))
LowerFrame == Keyword \o <<"3">> \o Terminator \o Stringify(ErrorReply(1))
NoLength == <<"X", ":", " ", "1">> \o Terminator
NoDigits == LengthHeader \o Terminator
BadJson == LengthHeader \o <<"1">> \o Terminator \o <<"x">>
CutFrame == SubSeq(FrameA, 1, Len(FrameA) - 1)

SegKinds == {"frameA", "frameB", "lower", "nolength", "nodigits", "badjson", "cut"}

SegBytes(s) ==
  CASE s = "frameA" -> FrameA
    [] s = "frameB" -> FrameB
    [] s = "lower" -> LowerFrame
    [] s = "nolength" -> NoLength
    [] s = "nodigits" -> NoDigits
    [] s = "badjson" -> BadJson
    [] s = "cut" -> CutFrame

RECURSIVE Bytes(_)
Bytes(ss) == IF ss = <<>> THEN <<>> ELSE SegBytes(Head(ss)) \o Bytes(Tail(ss))

Streams == UNION {[1..n -> SegKinds] : n \in 1..MaxSegs}

FrameInit ==
  /\ proc = 0 /\ nextId = 1 /\ pending = {} /\ buf = <<>> /\ initialized = FALSE
  /\ diagListeners = [u \in URIs |-> NoListener]
  /\ status = [p \in Procs |-> "unspawned"]
  /\ wlog = [p \in Procs |-> {}]
  /\ out = [p \in Procs |-> <<>>]
  /\ sent = 0
  /\ pc = [c \in Callers |-> "idle"]
  /\ kind = [c \in Callers |-> "get"]
  /\ uri = [c \in Callers |-> "u1"]
  /\ callNo = [c \in Callers |-> 0]
  /\ diag = [c \in Callers |-> "unset"]
  /\ result = [c \in Callers |-> "-"]
  /\ timers = {} /\ mq = <<>> /\ acked = {} /\ threw = FALSE
  /\ first = [c \in Callers |-> "-"]
  /\ segs \in Streams /\ fed = 0 /\ handed = <<>>
  /\ NoText /\ NoSuggestion /\ Constructed

\* The next k bytes of the stream arrive as one chunk.
FeedChunk(k) ==
  /\ segs # <<>>
  /\ DataHandler(SubSeq(Bytes(segs), fed + 1, fed + k))
  /\ fed' = fed + k
  /\ UNCHANGED <<proc, nextId, initialized, diagListeners, envVars, pc, kind, uri, callNo,
                 result, timers, segs, textVars, suggestVars, validatorVars>>

FrameNext == \E k \in 1..(Len(Bytes(segs)) - fed) : FeedChunk(k)

FrameSpec == FrameInit /\ [][FrameNext]_vars

AllFed == segs # <<>> /\ fed = Len(Bytes(segs))

\* C4: however the stream was cut into chunks, the messages handed to
\* onMessage and the bytes left in the buffer are those of feeding the
\* whole stream as one chunk.
C4_ChunkingIsInvisible ==
  AllFed =>
    LET one == OnData(<<>>, Bytes(segs))
    IN handed = one.msgs /\ buf = one.buf

\* The same, for the streams on which onData does not throw: there the
\* equivalence holds for every cut.
ChunkingIsInvisibleUnlessThrown ==
  (AllFed /\ ~OnData(<<>>, Bytes(segs)).threw) =>
    LET one == OnData(<<>>, Bytes(segs))
    IN handed = one.msgs /\ buf = one.buf /\ ~threw

\* The messages of the frames among the first n segments, and where the
\* n-th segment ends in the stream.
SegMsg(s) ==
  CASE s = "frameA" -> <<Push("u1", "D1")>>
    [] s = "frameB" -> <<Reply(1, ResultOf(1))>>
    [] s = "lower" -> <<ErrorReply(1)>>
    [] OTHER -> <<>>

RECURSIVE MsgsOf(_)
MsgsOf(ss) == IF ss = <<>> THEN <<>> ELSE SegMsg(Head(ss)) \o MsgsOf(Tail(ss))

\* The number of segments that have arrived in full.
Arrived == 
  LET done == {n \in 0..Len(segs) : Len(Bytes(SubSeq(segs, 1, n))) <= fed}
  IN CHOOSE n \in done : \A x \in done : x <= n

\* The stream holds only frames with a JSON payload and headers that lack a
\* usable length field.
OnlyFramesAndBadHeaders ==
  \A i \in DOMAIN segs : segs[i] \in {"frameA", "frameB", "lower", "nolength", "nodigits"}

\* C10: a header without a Content-Length field is dropped with its
\* terminator and nothing else: no message comes of it, onData does not
\* throw, and every frame around it is delivered; the buffer holds exactly
\* the bytes of the segment that has not arrived in full.
C10_BadHeaderDiscarded ==
  (segs # <<>> /\ OnlyFramesAndBadHeaders) =>
    /\ ~threw
    /\ handed = MsgsOf(SubSeq(segs, 1, Arrived))
    /\ buf = SubSeq(Bytes(segs), Len(Bytes(SubSeq(segs, 1, Arrived))) + 1, fed)

\* A header without a length field, then a frame, all fed and the frame
\* delivered.
C10_Witness ==
  /\ AllFed /\ Len(segs) >= 2
  /\ segs[1] \in {"nolength", "nodigits"} /\ segs[2] = "frameA"
  /\ ~threw /\ buf = <<>> /\ Len(handed) >= 1 /\ handed[1] = Push("u1", "D1")

\* ------------------------------------------------------------------- texts
\* Fragments, class names and fix texts are sequences of one-character
\* strings, as the byte streams above.
Lowers ==
  {"a", "b", "c", "d", "e", "f", "g", "h", "i", "j", "k", "l", "m",
   "n", "o", "p", "q", "r", "s", "t", "u", "v", "w", "x", "y", "z"}
Uppers ==
  {"A", "B", "C", "D", "E", "F", "G", "H", "I", "J", "K", "L", "M",
   "N", "O", "P", "Q", "R", "S", "T", "U", "V", "W", "X", "Y", "Z"}
Digits == {"0", "1", "2", "3", "4", "5", "6", "7", "8", "9"}
\* \w, [a-z-] and [a-z0-9-]
Words == Lowers \cup Uppers \cup Digits \cup {"_"}
LowerDash == Lowers \cup {"-"}
LowerDigitDash == Lowers \cup Digits \cup {"-"}
Quotes == {"\"", "'"}

CharsOf(s) == {s[i] : i \in DOMAIN s}
StartsWith(s, pre) == Len(pre) <= Len(s) /\ SubSeq(s, 1, Len(pre)) = pre
EndsWith(s, suf) == Len(suf) <= Len(s) /\ SubSeq(s, Len(s) - Len(suf) + 1, Len(s)) = suf
Includes(s, sub) == IndexOf(s, sub) # 0

\* The first position at or after i whose character is not in set: where a
\* greedy [set]* that starts at i ends.
RECURSIVE RunEnd(_, _, _)
RunEnd(s, i, set) == IF i <= Len(s) /\ s[i] \in set THEN RunEnd(s, i + 1, set) ELSE i

\* \b before position i (i = Len(s) + 1: at the end).
Boundary(s, i) == (i > 1 /\ s[i - 1] \in Words) # (i <= Len(s) /\ s[i] \in Words)

RECURSIVE Join(_, _)
Join(ss, sep) ==
  IF ss = <<>> THEN <<>>
  ELSE IF Len(ss) = 1 THEN ss[1]
  ELSE ss[1] \o sep \o Join(Tail(ss), sep)

\* split(/\s+/): the pieces between the runs of white space; a leading or a
\* trailing run gives an empty first or last piece.
RECURSIVE SplitFrom(_, _, _)
SplitFrom(s, i, cur) ==
  IF i > Len(s) THEN <<cur>>
  ELSE IF IsSpace(s[i])
    THEN <<cur>> \o SplitFrom(s, RunEnd(s, i, {" ", "\t", CR, LF}), <<>>)
    ELSE SplitFrom(s, i + 1, Append(cur, s[i]))
Split(s) == SplitFrom(s, 1, <<>>)

\* .filter(Boolean) on strings: the non-empty ones.
NonEmpty(ss) == SelectSeq(ss, LAMBDA x : x # <<>>)
SeqIncludes(ss, x) == \E i \in DOMAIN ss : ss[i] = x

\* ---------------------------------------------------------- extractClasses
\* src/src/validators/tailwind-validator.ts, line 69:
\*   /\b([a-z]+(?::[a-z]+)*-[a-z0-9-]+|\b[a-z]+-[a-z0-9-]+\b|[a-z]+\b)/g
\* Each Match operator gives the position after the match that starts at i,
\* or 0 when there is none.  In the first alternative every run is followed
\* by a character outside its class, so giving characters back never helps.
RECURSIVE SkipVariants(_, _)
SkipVariants(s, j) ==
  IF j <= Len(s) /\ s[j] = ":" /\ RunEnd(s, j + 1, Lowers) > j + 1
    THEN SkipVariants(s, RunEnd(s, j + 1, Lowers))
    ELSE j

MatchVariantClass(s, i) ==
  LET k == SkipVariants(s, RunEnd(s, i, Lowers))
  IN IF RunEnd(s, i, Lowers) > i /\ k <= Len(s) /\ s[k] = "-" /\ RunEnd(s, k + 1,
      LowerDigitDash) > k + 1
       THEN RunEnd(s, k + 1, LowerDigitDash)
       ELSE 0

\* Second alternative: the value gives characters back until \b holds.
MatchPlainClass(s, i) ==
  LET j == RunEnd(s, i, Lowers)
      ends == IF j > i /\ j <= Len(s) /\ s[j] = "-"
                THEN {e \in (j + 2)..RunEnd(s, j + 1, LowerDigitDash) : Boundary(s, e)}
                ELSE {}
  IN IF ends = {} THEN 0 ELSE CHOOSE e \in ends : \A x \in ends : x <= e

MatchWord(s, i) ==
  LET j == RunEnd(s, i, Lowers)
  IN IF j > i /\ Boundary(s, j) THEN j ELSE 0

MatchClassAt(s, i) ==
  IF ~Boundary(s, i) THEN 0
  ELSE IF MatchVariantClass(s, i) # 0 THEN MatchVariantClass(s, i)
  ELSE IF MatchPlainClass(s, i) # 0 THEN MatchPlainClass(s, i)
  ELSE MatchWord(s, i)

\* input.match(classPattern): the matches from left to right, each search
\* starting where the previous match ended.
RECURSIVE MatchesFrom(_, _)
MatchesFrom(s, i) ==
  IF i > Len(s) THEN <<>>
  ELSE \* one evaluation of the match at i
    LET e == MatchClassAt(s, i)
    IN IF e = 0 THEN MatchesFrom(s, i + 1)
       ELSE <<SubSeq(s, i, e - 1)>> \o MatchesFrom(s, e)

\* [...new Set(matches)]: first occurrences, in order.
RECURSIVE Unique(_, _)
Unique(ss, seen) ==
  IF ss = <<>> THEN <<>>
  ELSE IF Head(ss) \in seen THEN Unique(Tail(ss), seen)
  ELSE <<Head(ss)>> \o Unique(Tail(ss), seen \cup {Head(ss)})

\* The matches without the Set.
ExtractClassesWithDuplicates(s) == MatchesFrom(s, 1)
ExtractClasses(s) == Unique(MatchesFrom(s, 1), {})

\* ------------------------------------------------------- validateClass
\* TailwindIntellisenseSimpleService.validateClass (src/unnamed/part_000,
\* lines 55-150).  Every pattern but the last three is ^([a-z]+-)?BODY$:
\* BodiesOf gives the texts BODY may have to match.
FirstDash(s) == IndexOf(s, <<"-">>)
BodiesOf(s) ==
  {s} \cup (IF FirstDash(s) > 1 /\ CharsOf(SubSeq(s, 1, FirstDash(s) - 1)) \subseteq Lowers
              THEN {SubSeq(s, FirstDash(s) + 1, Len(s))}
              ELSE {})

AllDigits(t) == t # <<>> /\ CharsOf(t) \subseteq Digits

\* b is HEAD-TAIL with HEAD in heads and TAIL in tails, or \d+ where allowed.
HeadTail(b, heads, tails, digits) ==
  \E h \in heads :
    /\ StartsWith(b, h \o <<"-">>)
    /\ LET t == SubSeq(b, Len(h) + 2, Len(b))
       IN t \in tails \/ (digits /\ AllDigits(t))

FontSizes == {<<"x", "s">>, <<"s", "m">>, <<"b", "a", "s", "e">>, <<"l", "g">>, <<"x", "l">>,
    <<"2", "x", "l">>, <<"3", "x", "l">>, <<"4", "x", "l">>, <<"5", "x", "l">>, <<"6", "x",
    "l">>, <<"7", "x", "l">>, <<"8", "x", "l">>, <<"9", "x", "l">>}
ColorNames ==
  {<<"t", "r", "a", "n", "s", "p", "a", "r", "e", "n", "t">>, <<"c", "u", "r", "r", "e", "n",
      "t">>, <<"b", "l", "a", "c", "k">>, <<"w", "h", "i", "t", "e">>, <<"s", "l", "a", "t",
      "e">>, <<"g", "r", "a", "y">>, <<"z", "i", "n", "c">>, <<"n", "e", "u", "t", "r", "a",
      "l">>, <<"s", "t", "o", "n", "e">>, <<"r", "e", "d">>, <<"o", "r", "a", "n", "g", "e">>,
      <<"a", "m", "b", "e", "r">>, <<"y", "e", "l", "l", "o", "w">>}
    \cup {<<"l", "i", "m", "e">>, <<"g", "r", "e", "e", "n">>, <<"e", "m", "e", "r", "a", "l",
        "d">>, <<"t", "e", "a", "l">>, <<"c", "y", "a", "n">>, <<"s", "k", "y">>, <<"b", "l",
        "u", "e">>, <<"i", "n", "d", "i", "g", "o">>, <<"v", "i", "o", "l", "e", "t">>, <<"p",
        "u", "r", "p", "l", "e">>, <<"f", "u", "c", "h", "s", "i", "a">>, <<"p", "i", "n",
        "k">>, <<"r", "o", "s", "e">>}
Shades == {<<"5", "0">>, <<"1", "0", "0">>, <<"2", "0", "0">>, <<"3", "0", "0">>, <<"4", "0",
    "0">>, <<"5", "0", "0">>, <<"6", "0", "0">>, <<"7", "0", "0">>, <<"8", "0", "0">>, <<"9",
    "0", "0">>, <<"9", "5", "0">>}
\* <colour>-<shade>: the shade is what follows the last dash.
IsShadedColor(t) ==
  \E sh \in Shades :
    /\ EndsWith(t, <<"-">> \o sh)
    /\ SubSeq(t, 1, Len(t) - Len(sh) - 1) \in ColorNames

ValidBody(b) ==
  \/ b \in {<<"b", "l", "o", "c", "k">>, <<"i", "n", "l", "i", "n", "e">>, <<"f", "l", "e",
      "x">>, <<"g", "r", "i", "d">>, <<"t", "a", "b", "l", "e">>, <<"h", "i", "d", "d", "e",
      "n">>}
  \/ b \in {<<"c", "o", "n", "t", "a", "i", "n", "e", "r", "b", "o", "r", "d", "e", "r">>,
      <<"c", "o", "n", "t", "a", "i", "n", "e", "r", "c", "o", "n", "t", "e", "n", "t">>,
      <<"b", "o", "x", "-", "b", "o", "r", "d", "e", "r">>, <<"b", "o", "x", "-", "c", "o",
      "n", "t", "e", "n", "t">>}
  \/ HeadTail(b, {<<"f", "l", "e", "x">>, <<"g", "r", "i", "d">>}, {<<"r", "o", "w">>, <<"c",
      "o", "l">>, <<"w", "r", "a", "p">>, <<"n", "o", "w", "r", "a", "p">>, <<"1">>, <<"a",
      "u", "t", "o">>, <<"i", "n", "i", "t", "i", "a", "l">>, <<"n", "o", "n", "e">>}, FALSE)
  \/ HeadTail(b, {<<"j", "u", "s", "t", "i", "f", "y">>, <<"i", "t", "e", "m", "s">>, <<"c",
      "o", "n", "t", "e", "n", "t">>, <<"s", "e", "l", "f">>},
              {<<"s", "t", "a", "r", "t">>, <<"e", "n", "d">>, <<"c", "e", "n", "t", "e",
                  "r">>, <<"b", "e", "t", "w", "e", "e", "n">>, <<"a", "r", "o", "u", "n",
                  "d">>, <<"e", "v", "e", "n", "l", "y">>, <<"s", "t", "r", "e", "t", "c",
                  "h">>}, FALSE)
  \/ HeadTail(b, {<<"g", "r", "o", "w">>, <<"s", "h", "r", "i", "n", "k">>, <<"b", "a", "s",
      "i", "s">>}, {<<"0">>, <<"1">>, <<"a", "u", "t", "o">>}, TRUE)
  \/ HeadTail(b, {<<"p">>, <<"m">>, <<"p", "x">>, <<"p", "y">>, <<"p", "t">>, <<"p", "r">>,
      <<"p", "b">>, <<"p", "l">>, <<"m", "x">>, <<"m", "y">>, <<"m", "t">>, <<"m", "r">>,
      <<"m", "b">>, <<"m", "l">>}, {<<"a", "u", "t", "o">>, <<"p", "x">>}, TRUE)
  \/ HeadTail(b, {<<"w">>, <<"h">>, <<"m", "i", "n", "-", "w">>, <<"m", "i", "n", "-", "h">>,
      <<"m", "a", "x", "-", "w">>, <<"m", "a", "x", "-", "h">>}, {<<"f", "u", "l", "l">>,
      <<"s", "c", "r", "e", "e", "n">>, <<"m", "i", "n">>, <<"m", "a", "x">>, <<"f", "i",
      "t">>, <<"a", "u", "t", "o">>}, TRUE)
  \/ HeadTail(b, {<<"t", "e", "x", "t">>, <<"f", "o", "n", "t">>}, FontSizes, FALSE)
  \/ HeadTail(b, {<<"f", "o", "n", "t">>}, {<<"t", "h", "i", "n">>, <<"l", "i", "g", "h",
      "t">>, <<"n", "o", "r", "m", "a", "l">>, <<"m", "e", "d", "i", "u", "m">>, <<"s", "e",
      "m", "i", "b", "o", "l", "d">>, <<"b", "o", "l", "d">>, <<"e", "x", "t", "r", "a", "b",
      "o", "l", "d">>, <<"b", "l", "a", "c", "k">>}, FALSE)
  \/ HeadTail(b, {<<"l", "e", "a", "d", "i", "n", "g">>, <<"t", "r", "a", "c", "k", "i", "n",
      "g">>}, {<<"t", "i", "g", "h", "t">>, <<"n", "o", "r", "m", "a", "l">>, <<"w", "i", "d",
      "e">>}, TRUE)
  \/ \E h \in {<<"b", "g">>, <<"t", "e", "x", "t">>, <<"b", "o", "r", "d", "e", "r">>, <<"r",
      "i", "n", "g">>, <<"s", "h", "a", "d", "o", "w">>} :
       StartsWith(b, h \o <<"-">>) /\ IsShadedColor(SubSeq(b, Len(h) + 2, Len(b)))
  \/ b \in {<<"b", "o", "r", "d", "e", "r">>, <<"r", "o", "u", "n", "d", "e", "d">>}
  \/ HeadTail(b, {<<"b", "o", "r", "d", "e", "r">>, <<"r", "o", "u", "n", "d", "e", "d">>},
      {<<"n", "o", "n", "e">>, <<"s", "m">>, <<"b", "a", "s", "e">>, <<"m", "d">>, <<"l",
      "g">>, <<"x", "l">>, <<"2", "x", "l">>, <<"3", "x", "l">>, <<"f", "u", "l", "l">>, <<"p",
      "x">>}, TRUE)
  \/ HeadTail(b, {<<"s", "h", "a", "d", "o", "w">>, <<"o", "p", "a", "c", "i", "t", "y">>,
      <<"b", "l", "u", "r">>}, {<<"n", "o", "n", "e">>, <<"s", "m">>, <<"b", "a", "s", "e">>,
      <<"m", "d">>, <<"l", "g">>, <<"x", "l">>, <<"2", "x", "l">>}, TRUE)
  \/ HeadTail(b, {<<"s", "c", "a", "l", "e", "-", "x">>, <<"r", "o", "t", "a", "t", "e", "-",
      "x">>, <<"t", "r", "a", "n", "s", "l", "a", "t", "e", "-", "x">>, <<"s", "k", "e", "w",
      "-", "x">>, <<"s", "c", "a", "l", "e", "-", "y">>, <<"r", "o", "t", "a", "t", "e", "-",
      "y">>, <<"t", "r", "a", "n", "s", "l", "a", "t", "e", "-", "y">>, <<"s", "k", "e", "w",
      "-", "y">>},
              {}, TRUE)
  \/ \E h \in {<<"s", "c", "a", "l", "e">>, <<"r", "o", "t", "a", "t", "e">>, <<"t", "r", "a",
      "n", "s", "l", "a", "t", "e">>, <<"s", "k", "e", "w">>} : StartsWith(b, h \o <<"-", "-">>)
       /\ AllDigits(SubSeq(b, Len(h) + 3, Len(b)))
  \/ HeadTail(b, {<<"c", "u", "r", "s", "o", "r">>, <<"s", "e", "l", "e", "c", "t">>, <<"r",
      "e", "s", "i", "z", "e">>, <<"s", "c", "r", "o", "l", "l">>},
              {<<"a", "u", "t", "o">>, <<"d", "e", "f", "a", "u", "l", "t">>, <<"p", "o", "i",
                  "n", "t", "e", "r">>, <<"t", "e", "x", "t">>, <<"m", "o", "v", "e">>, <<"h",
                  "e", "l", "p">>, <<"n", "o", "n", "e">>, <<"a", "l", "l">>, <<"c", "o", "n",
                  "t", "a", "i", "n">>, <<"v", "e", "r", "t", "i", "c", "a", "l">>, <<"h", "o",
                  "r", "i", "z", "o", "n", "t", "a", "l">>, <<"s", "m", "o", "o", "t", "h">>},
              FALSE)
  \/ HeadTail(b, {<<"t", "r", "a", "n", "s", "i", "t", "i", "o", "n">>}, {<<"n", "o", "n",
      "e">>, <<"a", "l", "l">>, <<"c", "o", "l", "o", "r", "s">>, <<"o", "p", "a", "c", "i",
      "t", "y">>, <<"s", "h", "a", "d", "o", "w">>, <<"t", "r", "a", "n", "s", "f", "o", "r",
      "m">>}, FALSE)
  \/ HeadTail(b, {<<"d", "u", "r", "a", "t", "i", "o", "n">>, <<"d", "e", "l", "a", "y">>}, {},
      TRUE)
  \/ HeadTail(b, {<<"e", "a", "s", "e">>}, {<<"l", "i", "n", "e", "a", "r">>, <<"i", "n">>,
      <<"o", "u", "t">>, <<"i", "n", "-", "o", "u", "t">>}, FALSE)
  \/ b \in {<<"t", "r", "a", "n", "s", "f", "o", "r", "m">>, <<"t", "r", "a", "n", "s", "f",
      "o", "r", "m", "-", "c", "p", "u">>, <<"t", "r", "a", "n", "s", "f", "o", "r", "m", "-",
      "g", "p", "u">>, <<"t", "r", "a", "n", "s", "f", "o", "r", "m", "-", "n", "o", "n", "e">>}

\* Lines 106-112: a responsive, state or dark prefix and at least one more
\* character.
HasVariantPrefix(s) ==
  \E v \in {<<"s", "m">>, <<"m", "d">>, <<"l", "g">>, <<"x", "l">>, <<"2", "x", "l">>, <<"h",
      "o", "v", "e", "r">>, <<"f", "o", "c", "u", "s">>, <<"a", "c", "t", "i", "v", "e">>,
      <<"d", "i", "s", "a", "b", "l", "e", "d">>, <<"v", "i", "s", "i", "t", "e", "d">>, <<"f",
      "i", "r", "s", "t">>, <<"l", "a", "s", "t">>, <<"o", "d", "d">>, <<"e", "v", "e", "n">>,
      <<"d", "a", "r", "k">>} :
    StartsWith(s, v \o <<":">>) /\ Len(s) > Len(v) + 1

IsValid(className) == HasVariantPrefix(className) \/ \E b \in BodiesOf(className) : ValidBody(b)

\* /^(text)-(xs|...|9xl)$/ and the two colour patterns (part_000 lines
\* 137-138, conflict-detector.ts lines 234-235 and 280).
IsSize(cls) == StartsWith(cls, <<"t", "e", "x", "t", "-">>) /\ SubSeq(cls, 6,
    Len(cls)) \in FontSizes
IsColor(cls) ==
  \/ StartsWith(cls, <<"t", "e", "x", "t", "-">>) /\ IsShadedColor(SubSeq(cls, 6, Len(cls)))
  \/ /\ StartsWith(cls, <<"t", "e", "x", "t", "-", "[">>) /\ EndsWith(cls,
      <<"]">>) /\ Len(cls) >= 8
     /\ "]" \notin CharsOf(SubSeq(cls, 7, Len(cls) - 1))

\* Lines 118-141: the names of the CSS properties of a valid class, in the
\* order they are pushed (findConflictingProperties compares the names only).
Property(test, name) == IF test THEN <<name>> ELSE <<>>
CssProperties(className) ==
  IF ~IsValid(className) THEN <<>>
  ELSE Property(Includes(className, <<"f", "l", "e", "x">>), "display")
    \o Property(Includes(className, <<"g", "r", "i", "d">>), "display")
    \o Property(Includes(className, <<"b", "l", "o", "c", "k">>), "display")
    \o Property(Includes(className, <<"h", "i", "d", "d", "e", "n">>), "display")
    \o Property(Includes(className, <<"i", "t", "e", "m", "s", "-", "c", "e", "n", "t", "e",
        "r">>), "align-items")
    \o Property(Includes(className, <<"j", "u", "s", "t", "i", "f", "y", "-", "b", "e", "t",
        "w", "e", "e", "n">>), "justify-content")
    \o Property(StartsWith(className, <<"m", "t", "-">>), "margin-top")
    \o Property(StartsWith(className, <<"m", "b", "-">>), "margin-bottom")
    \o Property(StartsWith(className, <<"m", "l", "-">>), "margin-left")
    \o Property(StartsWith(className, <<"m", "r", "-">>), "margin-right")
    \o Property(StartsWith(className, <<"p", "-">>), "padding")
    \o Property(StartsWith(className, <<"h", "-">>), "height")
    \o Property(StartsWith(className, <<"w", "-">>), "width")
    \o Property(StartsWith(className, <<"f", "o", "n", "t", "-">>), "font-weight")
    \o Property(StartsWith(className, <<"b", "g", "-">>), "background-color")
    \o Property(IsSize(className), "font-size")
    \o Property(IsColor(className), "color")

\* ------------------------------------------------------- ConflictDetector
\* src/src/validators/conflict-detector.ts.  A ClassConflict without
\* suggestedFix has suggestedFix = <<>>; NoConflict stands for null.
Conflict(class1, class2, why, fix) ==
  [classes |-> <<class1, class2>>, reason |-> why, fixable |-> fix # <<>>, suggestedFix |-> fix]
Unfixable(class1, class2, why) ==
  [classes |-> <<class1, class2>>, reason |-> why, fixable |-> FALSE, suggestedFix |-> <<>>]

KeepOnlyOne(class1, class2) == <<"K", "e", "e", "p", " ", "o", "n", "l", "y", " ", "o", "n",
    "e", ":", " ">> \o class1 \o <<" ", "o", "r", " ">> \o class2
RemoveOne(class1, class2) == <<"R", "e", "m", "o", "v", "e", " ", "o", "n", "e", " ", "o", "f",
    " ", "t", "h", "e", " ", "c", "o", "n", "f", "l", "i", "c", "t", "i", "n", "g", " ", "c",
    "l", "a", "s", "s", "e", "s", ":", " ">> \o class1 \o <<" ", "o", "r", " ">> \o class2

\* /^(m|p)(t|b|l|r|x|y)?-\d+$/ (line 175), and its groups 1 and 2.
IsSpacing(cls) ==
  /\ Len(cls) >= 3 /\ cls[1] \in {"m", "p"}
  /\ LET d == IF cls[2] \in {"t", "b", "l", "r", "x", "y"} THEN 3 ELSE 2
     IN cls[d] = "-" /\ AllDigits(SubSeq(cls, d + 1, Len(cls)))
SpacingType(cls) == cls[1]
SpacingDir(cls) == IF cls[2] = "-" THEN "" ELSE cls[2]

\* The spacing rule without the comparison of the directions.
checkSpacingConflictAnySide(class1, class2) ==
  IF ~IsSpacing(class1) \/ ~IsSpacing(class2) THEN NoConflict
  ELSE IF SpacingType(class1) = SpacingType(class2)
    THEN Conflict(class1, class2, "Conflicting spacing values", KeepOnlyOne(class1, class2))
    ELSE NoConflict

checkSpacingConflict(class1, class2) ==
  IF ~IsSpacing(class1) \/ ~IsSpacing(class2) THEN NoConflict
  ELSE IF SpacingType(class1) = SpacingType(class2) /\ SpacingDir(class1) = SpacingDir(class2)
    THEN Conflict(class1, class2,
                  IF SpacingType(class1) = "m"
                    THEN "Conflicting margin values for same direction"
                    ELSE "Conflicting padding values for same direction",
                  KeepOnlyOne(class1, class2))
    ELSE NoConflict

\* /^(w|h)-\d+|(w|h)-(auto|full|screen)$/ (line 209): the first alternative
\* is anchored at the start only, the second at the end only.
IsSizing(cls) ==
  \/ Len(cls) >= 3 /\ cls[1] \in {"w", "h"} /\ cls[2] = "-" /\ cls[3] \in Digits
  \/ \E suf \in {<<"w", "-", "a", "u", "t", "o">>, <<"w", "-", "f", "u", "l", "l">>, <<"w",
      "-", "s", "c", "r", "e", "e", "n">>, <<"h", "-", "a", "u", "t", "o">>, <<"h", "-", "f",
      "u", "l", "l">>, <<"h", "-", "s", "c", "r", "e", "e", "n">>} : EndsWith(cls, suf)
SizingType(cls) ==
  IF StartsWith(cls, <<"w", "-">>) THEN "w" ELSE IF StartsWith(cls, <<"h",
      "-">>) THEN "h" ELSE ""

checkSizingConflict(class1, class2) ==
  IF ~IsSizing(class1) \/ ~IsSizing(class2) THEN NoConflict
  ELSE IF SizingType(class1) # "" /\ SizingType(class2) # ""
          /\ SizingType(class1) = SizingType(class2)
    THEN Conflict(class1, class2,
                  IF SizingType(class1) = "w" THEN "Conflicting width values"
                                              ELSE "Conflicting height values",
                  KeepOnlyOne(class1, class2))
    ELSE NoConflict

checkTypographyConflict(class1, class2) ==
  IF IsSize(class1) /\ IsSize(class2)
    THEN Unfixable(class1, class2, "Conflicting font size values")
  ELSE IF StartsWith(class1, <<"f", "o", "n", "t", "-">>) /\ StartsWith(class2, <<"f", "o",
      "n", "t", "-">>)
    THEN Unfixable(class1, class2, "Conflicting font weight values")
  ELSE IF StartsWith(class1, <<"l", "e", "a", "d", "i", "n", "g", "-">>) /\ StartsWith(class2,
      <<"l", "e", "a", "d", "i", "n", "g", "-">>)
    THEN Unfixable(class1, class2, "Conflicting line height values")
  ELSE IF StartsWith(class1, <<"t", "r", "a", "c", "k", "i", "n", "g",
      "-">>) /\ StartsWith(class2, <<"t", "r", "a", "c", "k", "i", "n", "g", "-">>)
    THEN Unfixable(class1, class2, "Conflicting letter spacing values")
  ELSE NoConflict

checkColorConflict(class1, class2) ==
  IF IsColor(class1) /\ IsColor(class2)
    THEN Unfixable(class1, class2, "Conflicting text color values")
  ELSE IF StartsWith(class1, <<"b", "g", "-">>) /\ StartsWith(class2, <<"b", "g", "-">>)
    THEN Unfixable(class1, class2, "Conflicting background color values")
  ELSE IF StartsWith(class1, <<"b", "o", "r", "d", "e", "r", "-">>) /\ StartsWith(class2,
      <<"b", "o", "r", "d", "e", "r", "-">>)
    THEN Unfixable(class1, class2, "Conflicting border color values")
  ELSE NoConflict

DisplayClasses == {<<"b", "l", "o", "c", "k">>, <<"i", "n", "l", "i", "n", "e">>, <<"i", "n",
    "l", "i", "n", "e", "-", "b", "l", "o", "c", "k">>, <<"f", "l", "e", "x">>, <<"i", "n",
    "l", "i", "n", "e", "-", "f", "l", "e", "x">>, <<"g", "r", "i", "d">>, <<"i", "n", "l",
    "i", "n", "e", "-", "g", "r", "i", "d">>, <<"f", "l", "o", "w", "-", "r", "o", "o", "t">>,
    <<"h", "i", "d", "d", "e", "n">>}
PositionClasses == {<<"s", "t", "a", "t", "i", "c">>, <<"f", "i", "x", "e", "d">>, <<"a", "b",
    "s", "o", "l", "u", "t", "e">>, <<"r", "e", "l", "a", "t", "i", "v", "e">>, <<"s", "t",
    "i", "c", "k", "y">>}

checkLayoutConflict(class1, class2) ==
  IF class1 \in DisplayClasses /\ class2 \in DisplayClasses
    THEN Unfixable(class1, class2, "Conflicting display values")
  ELSE IF class1 \in PositionClasses /\ class2 \in PositionClasses
    THEN Unfixable(class1, class2, "Conflicting position values")
  ELSE NoConflict

\* checkPatternConflict (lines 126-148): the first rule that gives a conflict.
checkPatternConflict(class1, class2) ==
  IF checkSpacingConflict(class1, class2) # NoConflict THEN checkSpacingConflict(class1, class2)
  ELSE IF checkSizingConflict(class1, class2) # NoConflict
    THEN checkSizingConflict(class1, class2)
  ELSE IF checkTypographyConflict(class1, class2) # NoConflict
    THEN checkTypographyConflict(class1, class2)
  ELSE IF checkColorConflict(class1, class2) # NoConflict
    THEN checkColorConflict(class1, class2)
  ELSE checkLayoutConflict(class1, class2)

\* findConflictingProperties (lines 153-169)
findConflictingProperties(props1, props2) ==
  {n \in CharsOf(props1) : n \in CharsOf(props2)}

\* checkConflict (lines 94-121).  With the validator not initialized
\* getCSSProperties throws, which line 115 catches.
checkConflict(class1, class2, initialized_) ==
  IF initialized_ /\ CssProperties(class1) # <<>> /\ CssProperties(class2) # <<>>
    THEN IF findConflictingProperties(CssProperties(class1), CssProperties(class2)) # {}
           THEN Conflict(class1, class2, "Conflicting CSS properties",
                         RemoveOne(class1, class2))
           ELSE NoConflict
    ELSE checkPatternConflict(class1, class2)

\* Lines 384-402
ResponsivePrefixes == <<<<"s", "m", ":">>, <<"m", "d", ":">>, <<"l", "g", ":">>, <<"x", "l",
    ":">>, <<"2", "x", "l", ":">>>>
getResponsivePrefix(className) ==
  LET hits == {i \in DOMAIN ResponsivePrefixes : StartsWith(className, ResponsivePrefixes[i])}
  IN IF hits = {} THEN <<>> ELSE ResponsivePrefixes[CHOOSE i \in hits : \A j \in hits : i <= j]
removeResponsivePrefix(className) ==
  SubSeq(className, Len(getResponsivePrefix(className)) + 1, Len(className))

\* getPropertyType (lines 374-379), /^([a-z-]+)(?:-[a-z0-9-]+)?$/: group 1
\* is the whole name when it has only letters and dashes, else the longest
\* start that is followed by a dash and by letters, digits and dashes up to
\* the end; <<>> stands for null.
getPropertyType(className) ==
  IF className # <<>> /\ CharsOf(className) \subseteq LowerDash THEN className
  ELSE LET m == RunEnd(className, 1, LowerDash) - 1
           ks == {k \in 1..(m - 1) :
                    /\ className[k + 1] = "-" /\ k + 1 < Len(className)
                    /\ CharsOf(SubSeq(className, k + 2,
                        Len(className))) \subseteq LowerDigitDash}
       IN IF ks = {} THEN <<>> ELSE SubSeq(className, 1, CHOOSE k \in ks : \A x \in ks : x <= k)

\* areResponsiveVariants (lines 342-369)
areResponsiveVariants(class1, class2) ==
  /\ getPropertyType(removeResponsivePrefix(class1))
       = getPropertyType(removeResponsivePrefix(class2))
  /\ getPropertyType(removeResponsivePrefix(class1)) # <<>>
  /\ getResponsivePrefix(class1) # getResponsivePrefix(class2)

\* The pairs i < j of 1..n in the order of the two loops (lines 42-43, 76-77).
RECURSIVE PairsFrom(_, _, _)
PairsFrom(i, j, n) ==
  IF i >= n THEN <<>>
  ELSE IF j > n THEN PairsFrom(i + 1, i + 2, n)
  ELSE <<<<i, j>>>> \o PairsFrom(i, j + 1, n)

\* The loops of detectConflicts and detectConflictsSync over the extracted
\* classes; how is "sync", "async" (validator not initialized) or "ready".
ConflictOf(class1, class2, how) ==
  IF areResponsiveVariants(class1, class2) THEN NoConflict
  ELSE IF how = "sync" THEN checkPatternConflict(class1, class2)
  ELSE checkConflict(class1, class2, how = "ready")

DetectIn(classes, how) ==
  LET prs == PairsFrom(1, 2, Len(classes))
      all == [k \in DOMAIN prs |-> ConflictOf(classes[prs[k][1]], classes[prs[k][2]], how)]
  IN SelectSeq(all, LAMBDA c : c # NoConflict)

\* detectConflictsSync (lines 68-89)
detectConflictsSync(text) == DetectIn(ExtractClasses(text), "sync")
\* detectConflicts (lines 29-66)
detectConflicts(text, initialized_) ==
  DetectIn(ExtractClasses(text), IF initialized_ THEN "ready" ELSE "async")

\* ------------------------------------------------------- detect on fragments
\* The language-server session and the frame reader at rest.
Quiet ==
  /\ proc = 0 /\ nextId = 1 /\ pending = {} /\ buf = <<>> /\ initialized = FALSE
  /\ diagListeners = [u \in URIs |-> NoListener]
  /\ status = [p \in Procs |-> "unspawned"]
  /\ wlog = [p \in Procs |-> {}]
  /\ out = [p \in Procs |-> <<>>]
  /\ sent = 0
  /\ pc = [c \in Callers |-> "idle"]
  /\ kind = [c \in Callers |-> "get"]
  /\ uri = [c \in Callers |-> "u1"]
  /\ callNo = [c \in Callers |-> 0]
  /\ diag = [c \in Callers |-> "unset"]
  /\ result = [c \in Callers |-> "-"]
  /\ timers = {} /\ mq = <<>> /\ acked = {} /\ threw = FALSE
  /\ first = [c \in Callers |-> "-"]
  /\ segs = <<>> /\ fed = 0 /\ handed = <<>>
quietVars == <<clientVars, envVars, callVars, timers, mq, acked, first, threw, frameVars>>

\* The utilities the fragments are made of.
SpacingTokens ==
  {<<ty>> \o dir \o <<"-">> \o n :
     ty \in {"m", "p"}, dir \in {<<>>} \cup {<<d>> : d \in {"t", "b", "l", "r", "x", "y"}},
         n \in {<<"4">>, <<"1", "2">>}}
FontSizeTokens == {<<"t", "e", "x", "t", "-", "s", "m">>, <<"t", "e", "x", "t", "-", "l",
    "g">>, <<"t", "e", "x", "t", "-", "2", "x", "l">>}
TextColorTokens == {<<"t", "e", "x", "t", "-", "s", "k", "y", "-", "4", "0", "0">>, <<"t", "e",
    "x", "t", "-", "r", "e", "d", "-", "5", "0", "0">>, <<"t", "e", "x", "t", "-", "[", "r",
    "e", "d", "]">>, <<"t", "e", "x", "t", "-", "[", "v", "a", "r", "(", "-", "-", "t", "e",
    "x", "t", "-", "l", "g", ")", "]">>}
OtherTokens ==
  {<<"f", "o", "n", "t", "-", "b", "o", "l", "d">>, <<"f", "o", "n", "t", "-", "t", "h", "i",
      "n">>, <<"l", "e", "a", "d", "i", "n", "g", "-", "4">>, <<"l", "e", "a", "d", "i", "n",
      "g", "-", "t", "i", "g", "h", "t">>, <<"t", "r", "a", "c", "k", "i", "n", "g", "-", "w",
      "i", "d", "e">>, <<"t", "r", "a", "c", "k", "i", "n", "g", "-", "t", "i", "g", "h", "t">>}
    \cup {<<"b", "g", "-", "r", "e", "d", "-", "5", "0", "0">>, <<"b", "g", "-", "s", "k", "y",
        "-", "4", "0", "0">>, <<"b", "o", "r", "d", "e", "r", "-", "r", "e", "d", "-", "5",
        "0", "0">>, <<"b", "o", "r", "d", "e", "r", "-", "s", "k", "y", "-", "4", "0", "0">>}
    \cup {<<"b", "l", "o", "c", "k">>, <<"f", "l", "e", "x">>, <<"f", "l", "e", "x", "-", "r",
        "o", "w">>, <<"s", "t", "a", "t", "i", "c">>, <<"f", "i", "x", "e", "d">>, <<"w", "-",
        "f", "u", "l", "l">>, <<"w", "-", "a", "u", "t", "o">>, <<"h", "-", "4">>, <<"h", "-",
        "6">>}
PlainTokens == FontSizeTokens \cup TextColorTokens \cup OtherTokens
\* Two utilities of one property family each.
Families == {<<<<"m", "t", "-", "4">>, <<"m", "t", "-", "6">>>>, <<<<"w", "-", "f", "u", "l",
    "l">>, <<"w", "-", "a", "u", "t", "o">>>>, <<<<"t", "e", "x", "t", "-", "s", "m">>, <<"t",
    "e", "x", "t", "-", "l", "g">>>>,
             <<<<"b", "l", "o", "c", "k">>, <<"f", "l", "e", "x">>>>}
Breakpoints == {<<"s", "m", ":">>, <<"m", "d", ":">>, <<"l", "g", ":">>, <<"x", "l", ":">>,
    <<"2", "x", "l", ":">>}

Fragment(a, b) == a \o <<" ">> \o b
\* 'a bp:b' and 'bp1:a bp2:b' with bp1 # bp2
SiblingFragments ==
  {Fragment(f[1], bp \o f[2]) : f \in Families, bp \in Breakpoints}
    \cup {Fragment(w[2] \o w[1][1], w[3] \o w[1][2]) :
            w \in {x \in Families \X Breakpoints \X Breakpoints : x[2] # x[3]}}
Fragments ==
  {Fragment(a, b) : a \in SpacingTokens, b \in SpacingTokens}
    \cup {Fragment(a, b) : a \in PlainTokens, b \in PlainTokens}
    \cup SiblingFragments
    \cup {Fragment(bp \o f[1], bp \o f[2]) : f \in Families, bp \in Breakpoints}

DetectInit ==
  /\ Quiet /\ NoSuggestion /\ Constructed
  /\ input \in Fragments
  /\ stage = "text" /\ path = "none" /\ conflicts = <<>>
  /\ chosen = [by |-> "none", conflict |-> NoConflict]
  /\ fixed = <<>> /\ refixed = <<>>

\* detectConflictsSync(text) (lines 68-89)
DetectConflictsSync ==
  /\ stage = "text"
  /\ stage' = "detected" /\ path' = "sync"
  /\ conflicts' = detectConflictsSync(input)
  /\ UNCHANGED <<quietVars, suggestVars, validatorVars, input, chosen, fixed, refixed>>

\* await detectConflicts(text) (lines 29-66) on a detector whose validator
\* was initialized or was not.
DetectConflicts(initialized_) ==
  /\ stage = "text"
  /\ stage' = "detected" /\ path' = IF initialized_ THEN "ready" ELSE "async"
  /\ conflicts' = detectConflicts(input, initialized_)
  /\ UNCHANGED <<quietVars, suggestVars, validatorVars, input, chosen, fixed, refixed>>

DetectNext == DetectConflictsSync \/ \E i \in BOOLEAN : DetectConflicts(i)

DetectSpec == DetectInit /\ [][DetectNext]_vars

\* ------------------------------------------------------- detector claims
Detected == stage = "detected"
InputTokens == Split(input)

\* C16: for every breakpoint prefix sm, md, lg, xl, 2xl and two utilities a,
\* b of one property family, detect returns the empty list for 'a bp:b' and
\* for 'bp1:a bp2:b' with bp1 # bp2.
C16_VariantSiblingsExempt == Detected /\ input \in SiblingFragments => conflicts = <<>>

\* What does hold: two spacing utilities under prefixes other than 2xl.
SpacingSiblingsExempt ==
  Detected /\ input \in SiblingFragments /\ ~Includes(input, <<"2", "x", "l", ":">>)
    /\ Includes(input, <<"m", "t", "-", "4">>) => conflicts = <<>>

\* C17: a conflict that detect reports between two font-size, two
\* font-weight, two line-height, two letter-spacing, two same-kind colour,
\* two display or two position tokens is not fixable and has no suggestedFix.
SameUnfixableKind(a, b) ==
  \/ a \in FontSizeTokens /\ b \in FontSizeTokens
  \/ \E pre \in {<<"f", "o", "n", "t", "-">>, <<"l", "e", "a", "d", "i", "n", "g", "-">>,
      <<"t", "r", "a", "c", "k", "i", "n", "g", "-">>, <<"b", "g", "-">>, <<"b", "o", "r", "d",
      "e", "r", "-">>} : StartsWith(a, pre) /\ StartsWith(b, pre)
  \/ a \in TextColorTokens /\ b \in TextColorTokens
  \/ a \in DisplayClasses /\ b \in DisplayClasses
  \/ a \in PositionClasses /\ b \in PositionClasses
C17_StyleConflictsNotFixable ==
  Detected =>
    \A i \in DOMAIN conflicts :
      SameUnfixableKind(conflicts[i].classes[1], conflicts[i].classes[2])
        => ~conflicts[i].fixable /\ conflicts[i].suggestedFix = <<>>

\* What does hold: the same on the paths that end in the pattern rules.
PatternStyleConflictsNotFixable == path = "ready" \/ C17_StyleConflictsNotFixable

\* C18: two distinct unprefixed spacing tokens with the same m/p letter and
\* the same direction give exactly one conflict, on these two classes,
\* fixable and with a suggestedFix naming both; with a different letter or
\* direction they give none.
SpacingHead(t) == SubSeq(t, 1, FirstDash(t) - 1)
C18_SpacingConflict ==
  Detected /\ Len(InputTokens) = 2 /\ CharsOf(InputTokens) \subseteq SpacingTokens
           /\ InputTokens[1] # InputTokens[2]
    => IF SpacingHead(InputTokens[1]) = SpacingHead(InputTokens[2])
         THEN /\ Len(conflicts) = 1
              /\ conflicts[1].classes = InputTokens
              /\ conflicts[1].fixable
              /\ Includes(conflicts[1].suggestedFix, InputTokens[1])
              /\ Includes(conflicts[1].suggestedFix, InputTokens[2])
         ELSE conflicts = <<>>
C18_Witness ==
  /\ Detected /\ path = "ready" /\ input = <<"m", "x", "-", "4", " ", "m", "x", "-", "1", "2">>
  /\ Len(conflicts) = 1 /\ conflicts[1].fixable

\* C19: a font-size token and a text-colour token (named colour and shade,
\* or an arbitrary value in brackets) never conflict, on any path.
C19_SizeAndColourNeverConflict ==
  Detected /\ Len(InputTokens) = 2
           /\ \/ InputTokens[1] \in FontSizeTokens /\ InputTokens[2] \in TextColorTokens
              \/ InputTokens[1] \in TextColorTokens /\ InputTokens[2] \in FontSizeTokens
    => conflicts = <<>>

\* What does hold: the same when no utility name stands inside the brackets.
SizeAndPlainColourNeverConflict ==
  Includes(input, <<"t", "e", "x", "t", "-", "[", "v", "a", "r", "(", "-", "-", "t", "e", "x",
      "t", "-", "l", "g", ")", "]">>) \/ C19_SizeAndColourNeverConflict

\* C20: every conflict has exactly two classes, which are two different
\* extracted tokens, and has a suggestedFix only if it is fixable.
C20_ConflictShape ==
  Detected =>
    \A i \in DOMAIN conflicts :
      /\ Len(conflicts[i].classes) = 2
      /\ conflicts[i].classes[1] # conflicts[i].classes[2]
      /\ CharsOf(conflicts[i].classes) \subseteq CharsOf(ExtractClasses(input))
      /\ conflicts[i].suggestedFix # <<>> => conflicts[i].fixable
C20_Witness ==
  /\ Detected /\ input = <<"t", "e", "x", "t", "-", "s", "m", " ", "t", "e", "x", "t", "-",
      "[", "v", "a", "r", "(", "-", "-", "t", "e", "x", "t", "-", "l", "g", ")", "]">>
  /\ \E i \in DOMAIN conflicts : conflicts[i].classes = <<<<"t", "e", "x", "t", "-", "s",
      "m">>, <<"t", "e", "x", "t", "-", "l", "g">>>>

\* ------------------------------------------------------------- AutoFixer
\* src/src/utils/logger.ts, lines 64-305.
WhiteSpace == {" ", "\t", CR, LF}

\* String.trim
RECURSIVE TrimEnd(_)
TrimEnd(s) == IF s # <<>> /\ IsSpace(s[Len(s)]) THEN TrimEnd(SubSeq(s, 1, Len(s) - 1)) ELSE s
Trim(s) == TrimEnd(SubSeq(s, RunEnd(s, 1, WhiteSpace), Len(s)))

\* removeClasses (lines 202-206)
removeClasses(classString, classesToRemove) ==
  Join(SelectSeq(Split(classString), LAMBDA cls : ~SeqIncludes(classesToRemove, cls)), <<" ">>)

\* replaceClasses (lines 241-255)
replaceClasses(classString, classesToReplace, replacement) ==
  LET removed == removeClasses(classString, classesToReplace)
      resultClasses == NonEmpty(Split(removed))
  IN Trim(IF replacement # <<>> /\ replacement # <<"C", "h", "o", "o", "s", "e", " ", "o", "n",
      "e", ":">>
               /\ ~SeqIncludes(resultClasses, replacement)
            THEN Join(Append(resultClasses, replacement), <<" ">>)
            ELSE removed)

\* The callbacks of applyRemoveInClassAttributes (lines 208-214) and of
\* applyReplaceInClassAttributes (lines 216-223) on the value of one attribute.
\* how.replacement = <<>>: remove only.
TransformValue(classValue, how) ==
  LET filtered == SelectSeq(NonEmpty(Split(classValue)),
                            LAMBDA t : ~SeqIncludes(how.classes, t))
  IN Join(IF how.replacement = <<>> \/ SeqIncludes(filtered, how.replacement)
            THEN filtered
            ELSE Append(filtered, how.replacement), <<" ">>)

\* name\s*=\s*(["'])([^"']+)(["']) at position i (lines 227): the positions
\* of the two quotes, <<0, 0>> when there is no match at i.
MatchAttribute(s, i, name) ==
  IF ~StartsWith(SubSeq(s, i, Len(s)), name) THEN <<0, 0>>
  ELSE LET eq == RunEnd(s, i + Len(name), WhiteSpace)
       IN IF eq > Len(s) \/ s[eq] # "=" THEN <<0, 0>>
          ELSE LET q1 == RunEnd(s, eq + 1, WhiteSpace)
               IN IF q1 > Len(s) \/ s[q1] \notin Quotes THEN <<0, 0>>
                  ELSE LET q2 == IF \E k \in (q1 + 1)..Len(s) : s[k] \in Quotes
                                   THEN CHOOSE k \in (q1 + 1)..Len(s) :
                                          /\ s[k] \in Quotes
                                          /\ \A j \in (q1 + 1)..(k - 1) : s[j] \notin Quotes
                                   ELSE 0
                       IN IF q2 <= q1 + 1 THEN <<0, 0>> ELSE <<q1, q2>>

\* output.replace(pattern, ...) with the g flag (lines 229-233): every match
\* from left to right becomes class=, the first quote, the new value and the
\* second quote.
RECURSIVE ReplaceAttributes(_, _, _, _)
ReplaceAttributes(s, i, name, how) ==
  IF i > Len(s) THEN <<>>
  ELSE LET q == MatchAttribute(s, i, name)
       IN IF q = <<0, 0>> THEN <<s[i]>> \o ReplaceAttributes(s, i + 1, name, how)
          ELSE <<"c", "l", "a", "s", "s", "=">> \o <<s[q[1]]>>
                 \o TransformValue(SubSeq(s, q[1] + 1, q[2] - 1), how)
                 \o <<s[q[2]]>> \o ReplaceAttributes(s, q[2] + 1, name, how)

\* transformClassAttributes (lines 225-236): the class pattern, then the
\* className pattern on its output.
transformClassAttributes(inputText, how) ==
  ReplaceAttributes(ReplaceAttributes(inputText, 1, <<"c", "l", "a", "s", "s">>, how), 1,
      <<"c", "l", "a", "s", "s", "N", "a", "m", "e">>, how)

applyRemoveInClassAttributes(inputText, classesToRemove) ==
  transformClassAttributes(inputText, [classes |-> classesToRemove, replacement |-> <<>>])
applyReplaceInClassAttributes(inputText, classesToReplace, replacement) ==
  transformClassAttributes(inputText, [classes |-> classesToReplace,
      replacement |-> replacement])

\* /^[^\s]+$/ (line 116)
IsSingleToken(t) == t # <<>> /\ CharsOf(t) \cap WhiteSpace = {}

\* fixConflict (lines 89-133): the text of the node after the fix; the text
\* itself when the result is null.
fixConflict(originalText, conflict) ==
  IF ~conflict.fixable \/ conflict.suggestedFix = <<>> THEN originalText
  ELSE IF IsSingleToken(conflict.suggestedFix)
    THEN applyReplaceInClassAttributes(originalText, conflict.classes, conflict.suggestedFix)
    ELSE applyRemoveInClassAttributes(originalText, conflict.classes)

\* fixTemplateConflict (lines 138-172): the same for the raw text of a quasi.
fixTemplateConflict(originalText, conflict) ==
  IF ~conflict.fixable \/ conflict.suggestedFix = <<>> THEN originalText
  ELSE IF Includes(conflict.suggestedFix, <<"C", "h", "o", "o", "s", "e", " ", "o", "n", "e",
      ":">>)
    THEN removeClasses(originalText, conflict.classes)
    ELSE replaceClasses(originalText, conflict.classes, conflict.suggestedFix)

ApplyFix(by, text, conflict) ==
  IF by = "literal" THEN fixConflict(text, conflict) ELSE fixTemplateConflict(text, conflict)

\* ------------------------------------------------------- fixes on fragments
\* A fragment is a tag with one attribute and a list of classes as its value.
AttributeNames == {<<"c", "l", "a", "s", "s">>, <<"c", "l", "a", "s", "s", "N", "a", "m",
    "e">>, <<"d", "a", "t", "a", "-", "c", "l", "a", "s", "s">>, <<"t", "i", "t", "l", "e">>}
Assignments == {<<"=">>, <<" ", "=", " ">>}
ClassLists == {<<"m", "t", "-", "4", " ", "m", "t", "-", "6">>, <<"f", "l", "e", "x", " ", "m",
    "t", "-", "4", " ", "m", "t", "-", "6">>, <<"m", "t", "-", "4", " ", "p", "-", "2", " ",
    "m", "t", "-", "6">>, <<"w", "-", "f", "u", "l", "l", " ", "w", "-", "a", "u", "t", "o">>,
    <<"w", "-", "f", "u", "l", "l", " ", "w", "-", "a", "u", "t", "o", " ", "f", "l", "e",
    "x">>}
Endings == {<<">">>, <<" ", "i", "d", "=", "\"", "x", "\"", ">">>}
Markup ==
  {<<"<", "p", " ">> \o name \o eq \o <<q>> \o val \o <<q>> \o end :
     name \in AttributeNames, eq \in Assignments, q \in Quotes, val \in ClassLists,
         end \in Endings}

\* Conflicts as the callers of the tests build them (test/auto-fixer.test.ts).
GivenConflicts ==
  {[classes |-> <<<<"m", "t", "-", "4">>, <<"m", "t", "-", "6">>>>,
      reason |-> "Spacing conflict", fixable |-> TRUE,
    suggestedFix |-> <<"m", "t", "-", "6">>],
   [classes |-> <<<<"m", "t", "-", "4">>, <<"m", "t", "-", "6">>>>,
       reason |-> "Layout conflict", fixable |-> TRUE,
    suggestedFix |-> <<"C", "h", "o", "o", "s", "e", " ", "o", "n", "e", ":", " ", "m", "t",
        "-", "4", " ", "o", "r", " ", "m", "t", "-", "6">>],
   [classes |-> <<<<"w", "-", "f", "u", "l", "l">>, <<"w", "-", "a", "u", "t", "o">>>>,
       reason |-> "Layout conflict", fixable |-> FALSE,
    suggestedFix |-> <<"C", "h", "o", "o", "s", "e", " ", "o", "n", "e", ":", " ", "w", "-",
        "f", "u", "l", "l", " ", "o", "r", " ", "w", "-", "a", "u", "t", "o">>]}

FixInit ==
  /\ Quiet /\ NoSuggestion /\ Constructed
  /\ input \in Markup
  /\ stage = "text" /\ path = "none" /\ conflicts = <<>>
  /\ chosen = [by |-> "none", conflict |-> NoConflict]
  /\ fixed = <<>> /\ refixed = <<>>

\* The Literal and TemplateLiteral handlers of the rule (src/src/index.ts,
\* lines 63-160): detectConflictsSync on the text of the node.
Detect ==
  /\ stage = "text"
  /\ stage' = "detected" /\ path' = "sync"
  /\ conflicts' = detectConflictsSync(input)
  /\ UNCHANGED <<quietVars, suggestVars, validatorVars, input, chosen, fixed, refixed>>

Fix(by, conflict) ==
  /\ stage = "detected"
  /\ chosen' = [by |-> by, conflict |-> conflict]
  /\ fixed' = ApplyFix(by, input, conflict)
  /\ stage' = IF fixed' = input THEN "kept" ELSE "fixed"
  /\ UNCHANGED <<quietVars, suggestVars, validatorVars, input, path, conflicts, refixed>>

\* The fix function of a report: fixConflict on the Literal node.
FixLiteral(i) == Fix("literal", conflicts[i])
\* fixTemplateConflict on the quasi.
FixTemplate(i) == Fix("template", conflicts[i])
\* fixConflict and fixTemplateConflict called with a conflict of the caller.
FixGiven(by, conflict) == Fix(by, conflict)

\* The rule runs again on the fixed text: detect, and the same fix.
Again ==
  /\ stage \in {"kept", "fixed"}
  /\ stage' = "again"
  /\ conflicts' = detectConflictsSync(fixed)
  /\ refixed' = ApplyFix(chosen.by, fixed, chosen.conflict)
  /\ UNCHANGED <<quietVars, suggestVars, validatorVars, input, path, chosen, fixed>>

FixNext ==
  \/ Detect
  \/ \E i \in DOMAIN conflicts : FixLiteral(i)
  \/ \E i \in DOMAIN conflicts : FixTemplate(i)
  \/ \E by \in {"literal", "template"}, c \in GivenConflicts : FixGiven(by, c)
  \/ Again

FixSpec == FixInit /\ [][FixNext]_vars

\* ----------------------------------------------------------- fixer claims
Applied == stage \in {"kept", "fixed"}
\* The fragment has a class or a className attribute.
HasClassAttribute == StartsWith(input, <<"<", "p", " ", "c", "l", "a", "s", "s">>)
FirstQuote(s) == CHOOSE k \in DOMAIN s : s[k] \in Quotes /\ \A j \in 1..(k - 1) : s[j] \notin Quotes
SecondQuote(s) ==
  CHOOSE k \in (FirstQuote(s) + 1)..Len(s) :
    s[k] \in Quotes /\ \A j \in (FirstQuote(s) + 1)..(k - 1) : s[j] \notin Quotes
\* The classes in the first quoted value of s.
QuotedClasses(s) == NonEmpty(Split(SubSeq(s, FirstQuote(s) + 1, SecondQuote(s) - 1)))
\* t is s with another text between the first two quotes.
SameOutsideValue(s, t) ==
  /\ StartsWith(t, SubSeq(s, 1, FirstQuote(s)))
  /\ EndsWith(t, SubSeq(s, SecondQuote(s), Len(s)))
  /\ Len(t) >= FirstQuote(s) + Len(s) - SecondQuote(s) + 1

\* C12: when the suggestedFix is not a single whitespace-free token the fix
\* is withheld: fixConflict and fixTemplateConflict produce no replacement
\* and the fragment stays as it was.
C12_MessageFixWithheld ==
  Applied /\ ~IsSingleToken(chosen.conflict.suggestedFix) => stage = "kept" /\ fixed = input

\* What does hold: a conflict that is not fixable is never applied.
UnfixableWithheld == Applied /\ ~chosen.conflict.fixable => stage = "kept" /\ fixed = input

\* C13: the fixed text differs from the input only inside the quoted value of
\* a class or className attribute; names, quotes, the spacing around '=',
\* other attributes and the text outside are kept.
C13_OnlyClassValuesChange ==
  Applied => IF HasClassAttribute THEN SameOutsideValue(input, fixed) ELSE fixed = input

\* What does hold: fixConflict on class="..." written without spaces.
LiteralFixKeepsMarkup ==
  Applied /\ chosen.by = "literal" /\ StartsWith(input, <<"<", "p", " ", "c", "l", "a", "s",
      "s", "=", "\"">>)
    => SameOutsideValue(input, fixed)

\* C14: the fix of a detected spacing or sizing conflict between a and b
\* leaves exactly one of a and b in the class attribute and keeps every other
\* class of it.
C14_FixKeepsOneOfThePair ==
  Applied /\ HasClassAttribute /\ SeqIncludes(conflicts, chosen.conflict)
    => /\ SeqIncludes(QuotedClasses(fixed), chosen.conflict.classes[1])
            # SeqIncludes(QuotedClasses(fixed), chosen.conflict.classes[2])
       /\ \A i \in DOMAIN QuotedClasses(input) :
            SeqIncludes(chosen.conflict.classes, QuotedClasses(input)[i])
              \/ SeqIncludes(QuotedClasses(fixed), QuotedClasses(input)[i])

\* What does hold: fixConflict with the class to keep as suggestedFix.
SingleTokenFixKeepsOne ==
  Applied /\ HasClassAttribute /\ chosen.by = "literal"
          /\ chosen.conflict.suggestedFix = <<"m", "t", "-",
              "6">> /\ SeqIncludes(QuotedClasses(input), <<"m", "t", "-", "6">>)
    => /\ SeqIncludes(QuotedClasses(fixed), <<"m", "t", "-",
        "6">>) /\ ~SeqIncludes(QuotedClasses(fixed), <<"m", "t", "-", "4">>)
       /\ \A i \in DOMAIN QuotedClasses(input) :
            QuotedClasses(input)[i] = <<"m", "t", "-", "4">>
              \/ SeqIncludes(QuotedClasses(fixed), QuotedClasses(input)[i])

\* C15: with t' the fragment after the fix of a fixable conflict c that
\* detect reported, detect on t' reports no conflict on c's pair and the
\* same fix on t' gives t' again.
C15_FixIdempotent ==
  stage = "again" /\ chosen.conflict.fixable
                  /\ SeqIncludes(detectConflictsSync(input), chosen.conflict)
    => /\ \A i \in DOMAIN conflicts : conflicts[i].classes # chosen.conflict.classes
       /\ refixed = fixed

\* What does hold: the same for fixConflict on a class or className attribute.
LiteralFixIdempotent ==
  chosen.by = "literal" /\ HasClassAttribute => C15_FixIdempotent

\* ------------------------------------------------------- readiness (Spec)
\* C27: in every reachable state of the client the readiness flag is true
\* only if the process handle is present and is the process that answered
\* the initialize request.
C27_ReadyMeansHandshaken == initialized => proc # 0 /\ Requests(proc) \cap AckedIds # {}

\* What does hold: the flag is set only after some process answered.
ReadyAfterSomeReply == initialized => AckedIds # {}

\* ------------------------------------------------- the two detect paths
PairsOf(cs) == {cs[i].classes : i \in DOMAIN cs}

\* C28: detectConflicts with an initialized validator and detectConflictsSync
\* report conflicts for the same class pairs of a fragment.
C28_SamePairsOnBothPaths ==
  Detected /\ path = "ready" => PairsOf(conflicts) = PairsOf(detectConflictsSync(input))

\* What does hold: the property lookup misses no pair of the pattern rules,
\* and without an initialized validator the two lists are equal.
NoPairMissed ==
  Detected /\ path = "ready" => PairsOf(detectConflictsSync(input)) \subseteq PairsOf(conflicts)
SameListWithoutValidator == Detected /\ path = "async" => conflicts = detectConflictsSync(input)

\* ------------------------------------------------------- CanonicalSuggester
\* src/src/validators/canonical-suggester.ts.
\* The attribute that starts at i for /(class(?:Name)?\s*=\s*["'])([^"']+)(["'])/
\* (line 67): the positions of its two quotes, <<0, 0>> when none starts at i.
\* After "class" without "Name" the pattern wants white space or '=', so the
\* two readings of (?:Name)? never both match.
MatchClassAttribute(s, i) ==
  IF MatchAttribute(s, i, <<"c", "l", "a", "s", "s", "N", "a", "m", "e">>) # <<0, 0>>
    THEN MatchAttribute(s, i, <<"c", "l", "a", "s", "s", "N", "a", "m", "e">>)
    ELSE MatchAttribute(s, i, <<"c", "l", "a", "s", "s">>)

\* The exec loop of lines 68-72: the tokens of every match, left to right.
RECURSIVE AttributeTokens(_, _)
AttributeTokens(s, i) ==
  IF i > Len(s) THEN <<>>
  ELSE LET q == MatchClassAttribute(s, i)
       IN IF q = <<0, 0>> THEN AttributeTokens(s, i + 1)
          ELSE NonEmpty(Split(SubSeq(s, q[1] + 1, q[2] - 1))) \o AttributeTokens(s, q[2] + 1)

\* x is in ([a-z-]+:)*[a-z-]+
IsVariantChain(x) ==
  /\ x # <<>> /\ CharsOf(x) \subseteq LowerDash \cup {":"}
  /\ x[1] # ":" /\ x[Len(x)] # ":"
  /\ \A k \in 1..(Len(x) - 1) : ~(x[k] = ":" /\ x[k + 1] = ":")

\* /^[!]?((?:[a-z-]+:)*)?[a-z-]+(?:-(?:\[[^\]]+\]|[a-z0-9\.]+))!?$/ (line 78):
\* an optional '!' at either end, and in between a '-' that splits the rest
\* into a chain of variants and utility name and a bracketed or plain value.
IsStandaloneToken(t) ==
  LET a == IF t # <<>> /\ t[1] = "!" THEN 2 ELSE 1
      b == IF Len(t) >= a /\ t[Len(t)] = "!" THEN Len(t) - 1 ELSE Len(t)
  IN \E k \in (a + 1)..(b - 1) :
       /\ t[k] = "-"
       /\ IsVariantChain(SubSeq(t, a, k - 1))
       /\ \/ /\ t[k + 1] = "[" /\ t[b] = "]" /\ b >= k + 3
             /\ \A j \in (k + 2)..(b - 1) : t[j] # "]"
          \/ \A j \in (k + 1)..b : t[j] \in Lowers \cup Digits \cup {"."}

\* tok.replace(/["'<>]/g, '') (line 77)
Cleaned(tok) == SelectSeq(tok, LAMBDA ch : ch \notin {"\"", "'", "<", ">"})

\* The fallback of lines 75-82.
StandaloneTokens(s) ==
  LET cleaned == [k \in DOMAIN NonEmpty(Split(s)) |-> Cleaned(NonEmpty(Split(s))[k])]
  IN SelectSeq(cleaned, IsStandaloneToken)

\* extractClassesFromInput (lines 65-85)
extractClassesFromInput(s) ==
  IF AttributeTokens(s, 1) # <<>> THEN AttributeTokens(s, 1) ELSE StandaloneTokens(s)

\* A suggestion (lines 10-14); NoSuggestionFor stands for null.
Suggestion(original, canonical, reason) ==
  [original |-> original, canonical |-> canonical, reason |-> reason]
NoSuggestionFor == Suggestion(<<>>, <<>>, <<>>)

\* The split of a class name that /^((?:[a-z-]+:)*)rest$/ makes when rest
\* holds no ':': the variants run up to the last ':'.
RECURSIVE LastColon(_, _)
LastColon(s, i) == IF i = 0 \/ s[i] = ":" THEN i ELSE LastColon(s, i - 1)
VariantsOf(s) == SubSeq(s, 1, LastColon(s, Len(s)))
UtilityOf(s) == SubSeq(s, LastColon(s, Len(s)) + 1, Len(s))
\* p is in ([a-z-]+:)*
IsVariants(p) == p = <<>> \/ IsVariantChain(SubSeq(p, 1, Len(p) - 1))
\* .replace(/:$/, '')
DropFinalColon(s) == IF s # <<>> /\ s[Len(s)] = ":" THEN SubSeq(s, 1, Len(s) - 1) ELSE s

\* The number a run of digits denotes.
RECURSIVE ToNumber(_)
ToNumber(ds) == IF ds = <<>> THEN 0 ELSE 10 * ToNumber(SubSeq(ds, 1,
    Len(ds) - 1)) + DigitVal(ds[Len(ds)])
RECURSIVE PowerOfTen(_)
PowerOfTen(n) == IF n = 0 THEN 1 ELSE 10 * PowerOfTen(n - 1)
IsDigits(ds) == ds # <<>> /\ CharsOf(ds) \subseteq Digits
\* -?[0-9]+
IsInteger(t) == IF t # <<>> /\ t[1] = "-" THEN IsDigits(Tail(t)) ELSE IsDigits(t)

\* String(n) of a whole number, and of a number given as twice its value
\* (every entry of the two scales is a multiple of 0.5).
RECURSIVE WholeText(_)
WholeText(n) ==
  IF n < 10 THEN <<CHOOSE d \in Digits : DigitVal(d) = n>>
  ELSE WholeText(n \div 10) \o <<CHOOSE d \in Digits : DigitVal(d) = n % 10>>
HalvesText(h) == IF h % 2 = 0 THEN WholeText(h \div 2) ELSE WholeText(h \div 2) \o <<".", "5">>

Abs(n) == IF n < 0 THEN 0 - n ELSE n

\* The loops of lines 220-221 and 309-318 on the distances of the entries:
\* the index of the least one, an earlier entry winning over a later one at
\* the same distance.
RECURSIVE ClosestFrom(_, _, _)
ClosestFrom(dists, k, best) ==
  IF k > Len(dists) THEN best
  ELSE ClosestFrom(dists, k + 1, IF dists[k] < dists[best] THEN k ELSE best)
Closest(dists) == ClosestFrom(dists, 1, 1)
\* The same loop with <= in place of <.
RECURSIVE LastClosestFrom(_, _, _)
LastClosestFrom(dists, k, best) ==
  IF k > Len(dists) THEN best
  ELSE LastClosestFrom(dists, k + 1, IF dists[k] <= dists[best] THEN k ELSE best)
LastClosest(dists) == LastClosestFrom(dists, 1, 1)

\* allowed (line 219) and validValues (line 307), each entry doubled.
AllowedHalves == <<0, 1, 2, 3, 4, 5, 6, 7, 8, 10, 12, 14, 16, 18, 20>>
ValidHalves ==
  <<0, 1, 2, 3, 4, 5, 6, 7, 8, 10, 12, 14, 16, 18, 20, 22, 24, 28, 32, 40, 48, 56, 64, 72, 80,
    88, 96, 104, 112, 120, 128, 144, 160, 192>>

\* pxToScale (lines 217-223): |px / 4 - v| is |px - 2 * (2v)| / 4.
pxToScale(px) ==
  HalvesText(AllowedHalves[Closest([k \in DOMAIN AllowedHalves |-> Abs(px - 2 * AllowedHalves[k])])])

\* |decimal - v| for parseFloat of whole '.' fraction and each valid value:
\* |2 * digits - (2v) * 10^n| / (2 * 10^n), n the length of the fraction.
ValidDistances(whole, fraction) ==
  [k \in DOMAIN ValidHalves |->
     Abs(2 * ToNumber(whole \o fraction) - ValidHalves[k] * PowerOfTen(Len(fraction)))]

\* The rounding with the later value winning at the same distance.
roundToNearestValidValueTiesUp(whole, fraction) ==
  HalvesText(ValidHalves[LastClosest(ValidDistances(whole, fraction))])
\* roundToNearestValidValue (lines 306-322)
roundToNearestValidValue(whole, fraction) ==
  HalvesText(ValidHalves[Closest(ValidDistances(whole, fraction))])

SpacingAbbreviations == {<<"m">>, <<"p">>, <<"m", "t">>, <<"m", "r">>, <<"m", "b">>, <<"m",
    "l">>, <<"m", "x">>, <<"m", "y">>, <<"p", "t">>, <<"p", "r">>, <<"p", "b">>, <<"p", "l">>,
    <<"p", "x">>, <<"p", "y">>}
InsetProperties == {<<"t", "o", "p">>, <<"l", "e", "f", "t">>, <<"r", "i", "g", "h", "t">>,
    <<"b", "o", "t", "t", "o", "m">>, <<"i", "n", "s", "e", "t">>}

\* s.replace(pat, rep) with a string pattern: the first occurrence.
ReplaceFirst(s, pat, rep) ==
  LET k == IndexOf(s, pat)
  IN IF k = 0 THEN s ELSE SubSeq(s, 1, k - 1) \o rep \o SubSeq(s, k + Len(pat), Len(s))

\* The two parts of \d+\.\d+ around the '.', <<>> twice when t is no such text.
DecimalParts(t) ==
  LET k == IndexOf(t, <<".">>)
  IN IF k > 1 /\ k < Len(t) /\ IsDigits(SubSeq(t, 1, k - 1)) /\ IsDigits(SubSeq(t, k + 1,
      Len(t)))
       THEN <<SubSeq(t, 1, k - 1), SubSeq(t, k + 1, Len(t))>>
       ELSE <<<<>>, <<>>>>

\* /^(m|p|mt|...|py)-(\d+\.\d+)$/ and the rounding (lines 98-116)
DecimalSpacing(className) ==
  LET k == IndexOf(className, <<"-">>)
      prefix == SubSeq(className, 1, k - 1)
      decimalValue == SubSeq(className, k + 1, Len(className))
      parts == DecimalParts(decimalValue)
  IN IF k = 0 \/ prefix \notin SpacingAbbreviations \/ parts[1] = <<>> THEN NoSuggestionFor
     ELSE LET roundedValue == roundToNearestValidValue(parts[1], parts[2])
          IN IF roundedValue # decimalValue \/ Includes(decimalValue, <<".">>)
               THEN Suggestion(className, prefix \o <<"-">> \o roundedValue,
                      <<"U", "s", "e", " ", "s", "t", "a", "n", "d", "a", "r", "d", " ", "T",
                          "a", "i", "l", "w", "i", "n", "d", " ", "s", "p", "a", "c", "i", "n",
                          "g", " ", "v", "a", "l", "u", "e", " ", "i", "n", "s", "t", "e", "a",
                          "d", " ", "o", "f", " ", "d", "e", "c", "i", "m", "a", "l", " ",
                          "'">> \o decimalValue \o <<"'">>)
               ELSE NoSuggestionFor

\* The loop of lines 119-134 for one entry of britishToAmerican.
Spelling(className, british, american) ==
  IF Includes(className, british)
    THEN Suggestion(className, ReplaceFirst(className, british, american),
           <<"U", "s", "e", " ", "A", "m", "e", "r", "i", "c", "a", "n", " ", "s", "p", "e",
               "l", "l", "i", "n", "g", " ", "'">> \o american \o <<"'", " ", "i", "n", "s",
               "t", "e", "a", "d", " ", "o", "f", " ", "B", "r", "i", "t", "i", "s", "h", " ",
               "s", "p", "e", "l", "l", "i", "n", "g", " ", "'">> \o british \o <<"'">>)
    ELSE NoSuggestionFor
BritishSpelling(className) ==
  IF Includes(className, <<"c", "e", "n", "t", "r", "e">>) THEN Spelling(className, <<"c", "e",
      "n", "t", "r", "e">>, <<"c", "e", "n", "t", "e", "r">>)
  ELSE Spelling(className, <<"c", "o", "l", "o", "u", "r">>, <<"c", "o", "l", "o", "r">>)

\* /^!([a-z0-9:-]+)$/ (lines 137-140)
LeadingImportant(className) ==
  IF Len(className) >= 2 /\ className[1] = "!"
       /\ CharsOf(Tail(className)) \subseteq Lowers \cup Digits \cup {":", "-"}
    THEN Suggestion(className, Tail(className) \o <<"!">>, <<"U", "s", "e", " ", "t", "r", "a",
        "i", "l", "i", "n", "g", " ", "!", " ", "f", "o", "r", " ", "i", "m", "p", "o", "r",
        "t", "a", "n", "t", " ", "m", "o", "d", "i", "f", "i", "e", "r">>)
    ELSE NoSuggestionFor

\* /^((?:[a-z-]+:)*)name-(v1|v2|...)$/ with the canonical utility of each
\* value and the reason (lines 142-206 except margin and padding); table maps
\* the utility after the variants to its canonical form.
Renamed(className, table, reason) ==
  IF IsVariants(VariantsOf(className)) /\ UtilityOf(className) \in DOMAIN table
    THEN Suggestion(className,
        DropFinalColon(VariantsOf(className) \o table[UtilityOf(className)]),
                    reason)
    ELSE NoSuggestionFor

\* A function from the texts in from to the texts they are renamed to.
Table(pairs) == [t \in {pr[1] : pr \in pairs} |-> (CHOOSE pr \in pairs : pr[1] = t)[2]]

Display(className) ==
  Renamed(className,
          Table({<<<<"d", "i", "s", "p", "l", "a", "y", "-", "b", "l", "o", "c", "k">>, <<"b",
              "l", "o", "c", "k">>>>, <<<<"d", "i", "s", "p", "l", "a", "y", "-", "i", "n",
              "l", "i", "n", "e">>, <<"i", "n", "l", "i", "n", "e">>>>,
                 <<<<"d", "i", "s", "p", "l", "a", "y", "-", "f", "l", "e", "x">>, <<"f", "l",
                     "e", "x">>>>, <<<<"d", "i", "s", "p", "l", "a", "y", "-", "g", "r", "i",
                     "d">>, <<"g", "r", "i", "d">>>>,
                 <<<<"d", "i", "s", "p", "l", "a", "y", "-", "n", "o", "n", "e">>, <<"h", "i",
                     "d", "d", "e", "n">>>>}),
          <<"U", "s", "e", " ", "c", "a", "n", "o", "n", "i", "c", "a", "l", " ", "d", "i",
              "s", "p", "l", "a", "y", " ", "u", "t", "i", "l", "i", "t", "y">>)
Width(className) ==
  Renamed(className, Table({<<<<"w", "i", "d", "t", "h", "-", "f", "u", "l", "l">>, <<"w", "-",
      "f", "u", "l", "l">>>>, <<<<"w", "i", "d", "t", "h", "-", "a", "u", "t", "o">>, <<"w",
      "-", "a", "u", "t", "o">>>>}),
          <<"U", "s", "e", " ", "w", "-", "*", " ", "s", "i", "z", "i", "n", "g", " ", "u",
              "t", "i", "l", "i", "t", "y">>)
Height(className) ==
  Renamed(className, Table({<<<<"h", "e", "i", "g", "h", "t", "-", "f", "u", "l", "l">>, <<"h",
      "-", "f", "u", "l", "l">>>>, <<<<"h", "e", "i", "g", "h", "t", "-", "a", "u", "t", "o">>,
      <<"h", "-", "a", "u", "t", "o">>>>}),
          <<"U", "s", "e", " ", "h", "-", "*", " ", "s", "i", "z", "i", "n", "g", " ", "u",
              "t", "i", "l", "i", "t", "y">>)

\* /^((?:[a-z-]+:)*)margin-(\d+)$/ and padding (lines 163-174)
LongSpacing(className, long, short, reason) ==
  LET util == UtilityOf(className)
  IN IF IsVariants(VariantsOf(className)) /\ StartsWith(util, long \o <<"-">>)
          /\ IsDigits(SubSeq(util, Len(long) + 2, Len(util)))
       THEN Suggestion(className,
              DropFinalColon(VariantsOf(className) \o short \o SubSeq(util, Len(long) + 1,
                  Len(util))),
              reason)
       ELSE NoSuggestionFor
Margin(className) == LongSpacing(className, <<"m", "a", "r", "g", "i", "n">>, <<"m">>, <<"U",
    "s", "e", " ", "m", "-", "*", " ", "s", "p", "a", "c", "i", "n", "g", " ", "u", "t", "i",
    "l", "i", "t", "y">>)
Padding(className) == LongSpacing(className, <<"p", "a", "d", "d", "i", "n", "g">>, <<"p">>,
    <<"U", "s", "e", " ", "p", "-", "*", " ", "s", "p", "a", "c", "i", "n", "g", " ", "u", "t",
    "i", "l", "i", "t", "y">>)

FlexGrow(className) ==
  Renamed(className, Table({<<<<"f", "l", "e", "x", "-", "g", "r", "o", "w">>, <<"g", "r", "o",
      "w">>>>}), <<"U", "s", "e", " ", "g", "r", "o", "w", " ", "i", "n", "s", "t", "e", "a",
      "d", " ", "o", "f", " ", "f", "l", "e", "x", "-", "g", "r", "o", "w">>)
BreakWords(className) ==
  Renamed(className, Table({<<<<"b", "r", "e", "a", "k", "-", "w", "o", "r", "d", "s">>, <<"w",
      "r", "a", "p", "-", "b", "r", "e", "a", "k", "-", "w", "o", "r", "d">>>>}),
          <<"U", "s", "e", " ", "w", "r", "a", "p", "-", "b", "r", "e", "a", "k", "-", "w",
              "o", "r", "d", " ", "i", "n", "s", "t", "e", "a", "d", " ", "o", "f", " ", "b",
              "r", "e", "a", "k", "-", "w", "o", "r", "d", "s">>)
Grey(className) ==
  Renamed(className,
          Table({<<<<"t", "e", "x", "t", "-", "g", "r", "e", "y">>, <<"t", "e", "x", "t", "-",
              "g", "r", "a", "y", "-", "5", "0", "0">>>>, <<<<"b", "g", "-", "g", "r", "e",
              "y">>, <<"b", "g", "-", "g", "r", "a", "y", "-", "5", "0", "0">>>>,
                 <<<<"b", "o", "r", "d", "e", "r", "-", "g", "r", "e", "y">>, <<"b", "o", "r",
                     "d", "e", "r", "-", "g", "r", "a", "y", "-", "5", "0", "0">>>>}),
          <<"U", "s", "e", " ", "A", "m", "e", "r", "i", "c", "a", "n", " ", "s", "p", "e",
              "l", "l", "i", "n", "g", " ", "g", "r", "a", "y", " ", "a", "n", "d", " ", "p",
              "r", "o", "v", "i", "d", "e", " ", "a", " ", "s", "t", "a", "n", "d", "a", "r",
              "d", " ", "s", "h", "a", "d", "e">>)
TextRegular(className) ==
  Renamed(className, Table({<<<<"t", "e", "x", "t", "-", "r", "e", "g", "u", "l", "a", "r">>,
      <<"t", "e", "x", "t", "-", "b", "a", "s", "e">>>>, <<<<"t", "e", "x", "t", "-", "n", "o",
      "r", "m", "a", "l">>, <<"t", "e", "x", "t", "-", "b", "a", "s", "e">>>>}),
          <<"U", "s", "e", " ", "t", "e", "x", "t", "-", "b", "a", "s", "e", " ", "f", "o",
              "r", " ", "r", "e", "g", "u", "l", "a", "r", " ", "t", "e", "x", "t">>)
FontRegular(className) ==
  Renamed(className, Table({<<<<"f", "o", "n", "t", "-", "r", "e", "g", "u", "l", "a", "r">>,
      <<"f", "o", "n", "t", "-", "n", "o", "r", "m", "a", "l">>>>, <<<<"f", "o", "n", "t", "-",
      "s", "t", "a", "n", "d", "a", "r", "d">>, <<"f", "o", "n", "t", "-", "n", "o", "r", "m",
      "a", "l">>>>}),
          <<"U", "s", "e", " ", "f", "o", "n", "t", "-", "n", "o", "r", "m", "a", "l", " ",
              "f", "o", "r", " ", "r", "e", "g", "u", "l", "a", "r", " ", "w", "e", "i", "g",
              "h", "t">>)

\* /^(?<prefix>(?:[a-z-]+:)*)z-\[(?<num>-?[0-9]+)\]$/ (lines 209-214)
ZIndex(className) ==
  LET util == UtilityOf(className)
  IN IF IsVariants(VariantsOf(className)) /\ StartsWith(util, <<"z", "-",
      "[">>) /\ EndsWith(util, <<"]">>)
          /\ IsInteger(SubSeq(util, 4, Len(util) - 1))
       THEN Suggestion(className,
              DropFinalColon(VariantsOf(className) \o <<"z", "-">> \o SubSeq(util, 4,
                  Len(util) - 1)),
              <<"U", "s", "e", " ", "c", "a", "n", "o", "n", "i", "c", "a", "l", " ", "n", "u",
                  "m", "e", "r", "i", "c", " ", "z", "-", "i", "n", "d", "e", "x", " ", "w",
                  "i", "t", "h", "o", "u", "t", " ", "b", "r", "a", "c", "k", "e", "t", "s">>)
       ELSE NoSuggestionFor

\* The part of a px rule after the variants: (-)?prop-\[(-?[0-9]+)px\] with
\* prop from props.  neg: the '-' before prop; px: the text between "[" and
\* "px]"; ok: whether util has this shape.
PxParts(util, props, mayNegate) ==
  LET k == IndexOf(util, <<"-", "[">>)
      head == SubSeq(util, 1, k - 1)
      neg == mayNegate /\ head # <<>> /\ head[1] = "-"
      prop == IF neg THEN Tail(head) ELSE head
      px == SubSeq(util, k + 2, Len(util) - 3)
  IN [ok |-> k > 0 /\ prop \in props /\ EndsWith(util, <<"p", "x", "]">>) /\ IsInteger(px),
      neg |-> neg, prop |-> prop, px |-> px]

\* Number(px) < 0, and Math.abs(Number(px))
IsNegative(px) == px[1] = "-" /\ ToNumber(Tail(px)) > 0
Magnitude(px) == IF px[1] = "-" THEN ToNumber(Tail(px)) ELSE ToNumber(px)

\* pxSpacing (lines 225-234)
PxSpacing(className) ==
  LET parts == PxParts(UtilityOf(className), SpacingAbbreviations \cup InsetProperties, TRUE)
  IN IF IsVariants(VariantsOf(className)) /\ parts.ok
       THEN LET scale == pxToScale(Magnitude(parts.px))
                sign == IF IsNegative(parts.px) \/ parts.neg THEN <<"-">> ELSE <<>>
            IN Suggestion(className,
                 DropFinalColon(VariantsOf(className) \o sign \o parts.prop \o <<"-">> \o scale),
                 <<"U", "s", "e", " ", "s", "c", "a", "l", "e", " ", "t", "o", "k", "e", "n",
                     " ", "i", "n", "s", "t", "e", "a", "d", " ", "o", "f", " ", "a", "r", "b",
                     "i", "t", "r", "a", "r", "y", " ", "p", "x", " ", "v", "a", "l", "u",
                     "e">>)
       ELSE NoSuggestionFor

\* pseudoPx (lines 237-247): the last variant is before or after.
PseudoPx(className) ==
  LET variants == VariantsOf(className)
      parts == PxParts(UtilityOf(className), InsetProperties, FALSE)
      pseudo == IF EndsWith(variants, <<"b", "e", "f", "o", "r", "e", ":">>) THEN <<"b", "e",
          "f", "o", "r", "e">> ELSE <<"a", "f", "t", "e", "r">>
      pref == SubSeq(variants, 1, Len(variants) - Len(pseudo) - 1)
  IN IF (EndsWith(variants, <<"b", "e", "f", "o", "r", "e", ":">>) \/ EndsWith(variants, <<"a",
      "f", "t", "e", "r", ":">>))
          /\ IsVariants(pref) /\ parts.ok
       THEN LET scale == pxToScale(Magnitude(parts.px))
                sign == IF IsNegative(parts.px) THEN <<"-">> ELSE <<>>
            IN Suggestion(className,
                 DropFinalColon(pref \o pseudo \o <<":">> \o sign \o parts.prop \o <<"-">> \o scale),
                 <<"U", "s", "e", " ", "s", "c", "a", "l", "e", " ", "t", "o", "k", "e", "n",
                     " ", "i", "n", "s", "t", "e", "a", "d", " ", "o", "f", " ", "a", "r", "b",
                     "i", "t", "r", "a", "r", "y", " ", "p", "x", " ", "v", "a", "l", "u",
                     "e">>)
       ELSE NoSuggestionFor

\* getPatternBasedSuggestion with the test for a leading '!' placed before
\* the two spellings.
getPatternBasedSuggestionImportantFirst(className) ==
  IF DecimalSpacing(className) # NoSuggestionFor THEN DecimalSpacing(className)
  ELSE IF LeadingImportant(className) # NoSuggestionFor THEN LeadingImportant(className)
  ELSE IF BritishSpelling(className) # NoSuggestionFor THEN BritishSpelling(className)
  ELSE IF Display(className) # NoSuggestionFor THEN Display(className)
  ELSE IF Width(className) # NoSuggestionFor THEN Width(className)
  ELSE IF Height(className) # NoSuggestionFor THEN Height(className)
  ELSE IF Margin(className) # NoSuggestionFor THEN Margin(className)
  ELSE IF Padding(className) # NoSuggestionFor THEN Padding(className)
  ELSE IF FlexGrow(className) # NoSuggestionFor THEN FlexGrow(className)
  ELSE IF BreakWords(className) # NoSuggestionFor THEN BreakWords(className)
  ELSE IF Grey(className) # NoSuggestionFor THEN Grey(className)
  ELSE IF TextRegular(className) # NoSuggestionFor THEN TextRegular(className)
  ELSE IF FontRegular(className) # NoSuggestionFor THEN FontRegular(className)
  ELSE IF ZIndex(className) # NoSuggestionFor THEN ZIndex(className)
  ELSE IF PxSpacing(className) # NoSuggestionFor THEN PxSpacing(className)
  ELSE PseudoPx(className)

\* getPatternBasedSuggestion (lines 97-249): each test returns when it
\* matches; null at the end.
getPatternBasedSuggestion(className) ==
  IF DecimalSpacing(className) # NoSuggestionFor THEN DecimalSpacing(className)
  ELSE IF BritishSpelling(className) # NoSuggestionFor THEN BritishSpelling(className)
  ELSE IF LeadingImportant(className) # NoSuggestionFor THEN LeadingImportant(className)
  ELSE IF Display(className) # NoSuggestionFor THEN Display(className)
  ELSE IF Width(className) # NoSuggestionFor THEN Width(className)
  ELSE IF Height(className) # NoSuggestionFor THEN Height(className)
  ELSE IF Margin(className) # NoSuggestionFor THEN Margin(className)
  ELSE IF Padding(className) # NoSuggestionFor THEN Padding(className)
  ELSE IF FlexGrow(className) # NoSuggestionFor THEN FlexGrow(className)
  ELSE IF BreakWords(className) # NoSuggestionFor THEN BreakWords(className)
  ELSE IF Grey(className) # NoSuggestionFor THEN Grey(className)
  ELSE IF TextRegular(className) # NoSuggestionFor THEN TextRegular(className)
  ELSE IF FontRegular(className) # NoSuggestionFor THEN FontRegular(className)
  ELSE IF ZIndex(className) # NoSuggestionFor THEN ZIndex(className)
  ELSE IF PxSpacing(className) # NoSuggestionFor THEN PxSpacing(className)
  ELSE PseudoPx(className)

\* getCanonicalSuggestion (lines 90-92)
getCanonicalSuggestion(className) == getPatternBasedSuggestion(className)

\* styleToTailwind (lines 331-344) in the order of its keys.
StyleToTailwind ==
  <<<<<<"d", "i", "s", "p", "l", "a", "y", ":", " ", "f", "l", "e", "x">>, <<"f", "l", "e",
      "x">>>>, <<<<"d", "i", "s", "p", "l", "a", "y", ":", " ", "b", "l", "o", "c", "k">>,
      <<"b", "l", "o", "c", "k">>>>, <<<<"d", "i", "s", "p", "l", "a", "y", ":", " ", "n", "o",
      "n", "e">>, <<"h", "i", "d", "d", "e", "n">>>>,
    <<<<"t", "e", "x", "t", "-", "a", "l", "i", "g", "n", ":", " ", "c", "e", "n", "t", "e",
        "r">>, <<"t", "e", "x", "t", "-", "c", "e", "n", "t", "e", "r">>>>, <<<<"t", "e", "x",
        "t", "-", "a", "l", "i", "g", "n", ":", " ", "l", "e", "f", "t">>, <<"t", "e", "x",
        "t", "-", "l", "e", "f", "t">>>>,
    <<<<"t", "e", "x", "t", "-", "a", "l", "i", "g", "n", ":", " ", "r", "i", "g", "h", "t">>,
        <<"t", "e", "x", "t", "-", "r", "i", "g", "h", "t">>>>, <<<<"j", "u", "s", "t", "i",
        "f", "y", "-", "c", "o", "n", "t", "e", "n", "t", ":", " ", "c", "e", "n", "t", "e",
        "r">>, <<"j", "u", "s", "t", "i", "f", "y", "-", "c", "e", "n", "t", "e", "r">>>>,
    <<<<"j", "u", "s", "t", "i", "f", "y", "-", "c", "o", "n", "t", "e", "n", "t", ":", " ",
        "s", "p", "a", "c", "e", "-", "b", "e", "t", "w", "e", "e", "n">>, <<"j", "u", "s",
        "t", "i", "f", "y", "-", "b", "e", "t", "w", "e", "e", "n">>>>,
    <<<<"a", "l", "i", "g", "n", "-", "i", "t", "e", "m", "s", ":", " ", "c", "e", "n", "t",
        "e", "r">>, <<"i", "t", "e", "m", "s", "-", "c", "e", "n", "t", "e", "r">>>>, <<<<"m",
        "a", "r", "g", "i", "n", ":", " ", "0", " ", "a", "u", "t", "o">>, <<"m", "x", "-",
        "a", "u", "t", "o">>>>,
    <<<<"w", "i", "d", "t", "h", ":", " ", "1", "0", "0", "%">>, <<"w", "-", "f", "u", "l",
        "l">>>>, <<<<"h", "e", "i", "g", "h", "t", ":", " ", "1", "0", "0", "%">>, <<"h", "-",
        "f", "u", "l", "l">>>>>>

\* convertInlineStylesToTailwind (lines 327-357)
convertInlineStylesToTailwind(styleContent) ==
  LET all == [k \in DOMAIN StyleToTailwind |->
                IF Includes(styleContent, StyleToTailwind[k][1])
                  THEN Suggestion(<<"s", "t", "y", "l", "e", "=",
                      "\"">> \o styleContent \o <<"\"">>, StyleToTailwind[k][2],
                         <<"U", "s", "e", " ", "T", "a", "i", "l", "w", "i", "n", "d", " ",
                             "c", "l", "a", "s", "s", " ", "'">> \o StyleToTailwind[k][2]
                           \o <<"'", " ", "i", "n", "s", "t", "e", "a", "d", " ", "o", "f",
                               " ", "i", "n", "l", "i", "n", "e", " ", "s", "t", "y", "l", "e",
                               " ", "'">> \o StyleToTailwind[k][1] \o <<"'">>)
                  ELSE NoSuggestionFor]
  IN SelectSeq(all, LAMBDA g : g # NoSuggestionFor)

\* The loop of lines 258-265 over the matches of /style\s*=\s*["']([^"']+)["']/g.
RECURSIVE InlineStyles(_, _)
InlineStyles(s, i) ==
  IF i > Len(s) THEN <<>>
  ELSE LET q == MatchAttribute(s, i, <<"s", "t", "y", "l", "e">>)
       IN IF q = <<0, 0>> THEN InlineStyles(s, i + 1)
          ELSE convertInlineStylesToTailwind(SubSeq(s, q[1] + 1, q[2] - 1))
                 \o InlineStyles(s, q[2] + 1)

\* \b(mr|ml|mt|mb|mx|my)-\d at position a
MarginAt(s, a) ==
  /\ Boundary(s, a) /\ a + 3 <= Len(s)
  /\ SubSeq(s, a, a + 2) \in {<<"m", "r", "-">>, <<"m", "l", "-">>, <<"m", "t", "-">>, <<"m",
      "b", "-">>, <<"m", "x", "-">>, <<"m", "y", "-">>}
  /\ s[a + 3] \in Digits
\* \btext-\w at position a
TextAt(s, a) ==
  /\ Boundary(s, a) /\ a + 5 <= Len(s)
  /\ SubSeq(s, a, a + 4) = <<"t", "e", "x", "t", "-">>
  /\ s[a + 5] \in Words

\* The two kinds of anti-pattern (lines 270 and 274): a utility of the kind
\* at position a, and the end of its run of \d or \w.
UtilityAt(patternKind, s, a) == IF patternKind = "margin" THEN MarginAt(s, a) ELSE TextAt(s, a)
UtilityEnd(patternKind, s, a) ==
  IF patternKind = "margin" THEN RunEnd(s, a + 3, Digits) ELSE RunEnd(s, a + 5, Words)

\* class\s*=\s*["'] at position i and the next quote after it: the positions
\* of the two quotes, <<0, 0>> when there is none.
ClassValueAt(s, i) ==
  IF ~StartsWith(SubSeq(s, i, Len(s)), <<"c", "l", "a", "s", "s">>) THEN <<0, 0>>
  ELSE LET eq == RunEnd(s, i + 5, WhiteSpace)
       IN IF eq > Len(s) \/ s[eq] # "=" THEN <<0, 0>>
          ELSE LET q1 == RunEnd(s, eq + 1, WhiteSpace)
                   q2 == RunEnd(s, q1 + 1, CharsOf(s) \ Quotes)
               IN IF q1 > Len(s) \/ s[q1] \notin Quotes \/ q2 > Len(s) THEN <<0, 0>>
                  ELSE <<q1, q2>>

\* The match of an anti-pattern that starts at i: between the quotes two
\* utilities of the kind, the first one followed by white space.  The
\* position of the closing quote, 0 for no match.
MatchAntiPattern(patternKind, s, i) ==
  LET q == ClassValueAt(s, i)
  IN IF q = <<0, 0>> THEN 0
     ELSE IF \E a \in (q[1] + 1)..(q[2] - 1) :
               /\ UtilityAt(patternKind, s, a)
               /\ LET e == UtilityEnd(patternKind, s, a)
                  IN /\ e < q[2] /\ IsSpace(s[e])
                     /\ \E b \in (e + 1)..(q[2] - 1) : UtilityAt(patternKind, s, b)
            THEN q[2]
            ELSE 0

\* input.match(pattern)?.[0]: the first match from the left, <<>> for none.
RECURSIVE FirstAntiPattern(_, _, _)
FirstAntiPattern(patternKind, s, i) ==
  IF i > Len(s) THEN <<>>
  ELSE IF MatchAntiPattern(patternKind, s, i) # 0
    THEN SubSeq(s, i, MatchAntiPattern(patternKind, s, i))
    ELSE FirstAntiPattern(patternKind, s, i + 1)

\* The forEach of lines 279-287 for one anti-pattern.
AntiPattern(patternKind, s, message) ==
  IF FirstAntiPattern(patternKind, s, 1) # <<>>
    THEN <<Suggestion(FirstAntiPattern(patternKind, s, 1), s, message)>>
    ELSE <<>>

\* getPatternBasedSuggestions (lines 254-290)
getPatternBasedSuggestions(s) ==
  InlineStyles(s, 1)
    \o AntiPattern("margin", s,
         <<"C", "o", "n", "s", "i", "d", "e", "r", " ", "u", "s", "i", "n", "g", " ", "m", "o",
             "r", "e", " ", "s", "p", "e", "c", "i", "f", "i", "c", " ", "s", "p", "a", "c",
             "i", "n", "g", " ", "u", "t", "i", "l", "i", "t", "i", "e", "s", " ", "i", "n",
             "s", "t", "e", "a", "d", " ", "o", "f", " ", "m", "u", "l", "t", "i", "p", "l",
             "e", " ", "m", "a", "r", "g", "i", "n", " ", "c", "l", "a", "s", "s", "e", "s">>)
    \o AntiPattern("text", s, <<"A", "v", "o", "i", "d", " ", "m", "u", "l", "t", "i", "p",
        "l", "e", " ", "t", "e", "x", "t", " ", "s", "i", "z", "e", " ", "c", "l", "a", "s",
        "s", "e", "s", ",", " ", "u", "s", "e", " ", "t", "h", "e", " ", "m", "o", "s", "t",
        " ", "a", "p", "p", "r", "o", "p", "r", "i", "a", "t", "e", " ", "o", "n", "e">>)

\* The forEach of lines 53-56: the suggestion of each class that has one.
PerToken(classNames) ==
  SelectSeq([k \in DOMAIN classNames |-> getCanonicalSuggestion(classNames[k])],
            LAMBDA g : g # NoSuggestionFor)

\* getCanonicalSuggestionsSync (lines 50-60)
getCanonicalSuggestionsSync(s) ==
  PerToken(extractClassesFromInput(s)) \o getPatternBasedSuggestions(s)

\* ------------------------------------------------- suggestions on fragments
\* The class lists the fragments are made of.
SuggestLists ==
  {<<"m", "t", "-", "0", ".", "5", " ", "m", "t", "-", "0", ".", "5">>, <<"m", "t", "-", "2",
      ".", "2", "5", " ", "p", "-", "0", ".", "7">>, <<"m", "x", "-", "1", "3", ".", "0", " ",
      "!", "t", "e", "x", "t", "-", "c", "e", "n", "t", "r", "e">>, <<"m", "t", "-", "[", "2",
      "p", "x", "]", " ", "m", "t", "-", "[", "-", "2", "0", "p", "x", "]">>, <<"-", "m", "t",
      "-", "[", "2", "0", "p", "x", "]", " ", "-", "m", "t", "-", "[", "-", "2", "0", "p", "x",
      "]">>, <<"m", "d", ":", "m", "t", "-", "[", "8", "p", "x", "]", " ", "b", "e", "f", "o",
      "r", "e", ":", "t", "o", "p", "-", "[", "4", "p", "x", "]">>, <<"2", "x", "l", ":", "m",
      "t", "-", "6", " ", "w", "-", "1", "/", "2">>, <<"m", "t", "-", "2", " ", "m", "b", "-",
      "4">>, <<"t", "e", "x", "t", "-", "s", "m", " ", "t", "e", "x", "t", "-", "l", "g">>,
      <<"d", "i", "s", "p", "l", "a", "y", "-", "n", "o", "n", "e", " ", "t", "e", "x", "t",
      "-", "g", "r", "e", "y">>, <<"f", "l", "e", "x", "-", "g", "r", "o", "w", " ", "m", "a",
      "r", "g", "i", "n", "-", "4">>, <<"z", "-", "[", "1", "0", "]", " ", "f", "o", "n", "t",
      "-", "r", "e", "g", "u", "l", "a", "r">>, <<"m", "t", "-", "4", " ", "m", "t", "-",
      "6">>, <<"!", "f", "l", "e", "x", " ", "w", "i", "d", "t", "h", "-", "f", "u", "l",
      "l">>, <<"h", "e", "i", "g", "h", "t", "-", "a", "u", "t", "o", " ", "p", "a", "d", "d",
      "i", "n", "g", "-", "8">>, <<"b", "r", "e", "a", "k", "-", "w", "o", "r", "d", "s", " ",
      "t", "e", "x", "t", "-", "n", "o", "r", "m", "a", "l">>}
\* A tag with one attribute, a tag with a title and a class, a tag with a
\* style and a class, and the bare class lists.
SuggestInputs ==
  {<<"<", "p", " ">> \o name \o <<"=", "\"">> \o val \o <<"\"",
      ">">> : name \in AttributeNames, val \in SuggestLists}
    \cup {<<"<", "p", " ", "t", "i", "t", "l", "e", "=", "\"", "m", "t", "-", "4", " ", "m",
        "t", "-", "6", "\"", " ", "c", "l", "a", "s", "s", "=", "\"", "p", "-", "2", "\"",
        ">">>, <<"<", "p", " ", "s", "t", "y", "l", "e", "=", "\"", "d", "i", "s", "p", "l",
        "a", "y", ":", " ", "f", "l", "e", "x", "\"", " ", "c", "l", "a", "s", "s", "=", "\"",
        "m", "t", "-", "2", "\"", ">">>}
    \cup SuggestLists

SuggestInit ==
  /\ Quiet /\ NoSuggestion /\ Constructed
  /\ input \in SuggestInputs
  /\ stage = "text" /\ path = "none" /\ conflicts = <<>>
  /\ chosen = [by |-> "none", conflict |-> NoConflict]
  /\ fixed = <<>> /\ refixed = <<>>

\* validator.extractClasses(input) (tailwind-validator.ts, lines 66-74)
ExtractByValidator ==
  /\ tokens.by = "none"
  /\ tokens' = [by |-> "validator", list |-> ExtractClasses(input)]
  /\ UNCHANGED <<quietVars, textVars, suggestions, validatorVars>>

\* extractClassesFromInput(input) (lines 65-85)
ExtractBySuggester ==
  /\ tokens.by = "none"
  /\ tokens' = [by |-> "suggester", list |-> extractClassesFromInput(input)]
  /\ UNCHANGED <<quietVars, textVars, suggestions, validatorVars>>

\* getCanonicalSuggestionsSync(input, filePath) (lines 50-60)
CallGetCanonicalSuggestionsSync ==
  /\ ~suggestions.called
  /\ suggestions' = [called |-> TRUE, list |-> getCanonicalSuggestionsSync(input)]
  /\ UNCHANGED <<quietVars, textVars, tokens, validatorVars>>

SuggestNext == ExtractByValidator \/ ExtractBySuggester \/ CallGetCanonicalSuggestionsSync \/ Detect

SuggestSpec == SuggestInit /\ [][SuggestNext]_vars

\* ------------------------------------------------------ suggester claims
Range(f) == {f[k] : k \in DOMAIN f}

\* The words of the quoted values of the attributes named class or className
\* (the name not being the end of a longer name such as data-class), from
\* left to right.
RECURSIVE ClassAttributeWords(_, _)
ClassAttributeWords(s, i) ==
  IF i > Len(s) THEN <<>>
  ELSE LET q == MatchClassAttribute(s, i)
       IN IF q = <<0, 0>> THEN ClassAttributeWords(s, i + 1)
          ELSE (IF i > 1 /\ s[i - 1] \in Words \cup {"-"} THEN <<>>
                ELSE NonEmpty(Split(SubSeq(s, q[1] + 1, q[2] - 1))))
                 \o ClassAttributeWords(s, q[2] + 1)

\* The suggestions of the list that come from single tokens: all but the
\* ones for the whole fragment, which come last.
PerTokenSuggestions ==
  SubSeq(suggestions.list, 1, Len(suggestions.list) - Len(getPatternBasedSuggestions(input)))

\* C21: when the fragment has a class or className attribute, the tokens
\* either engine analyses are exactly the words of the quoted values of these
\* attributes; no other word of the fragment is in a reported conflict or in
\* a per-token suggestion.
C21_OnlyAttributeWords ==
  LET words == Range(ClassAttributeWords(input, 1))
  IN words # {} =>
       /\ tokens.by # "none" => Range(tokens.list) = words
       /\ Detected => \A k \in DOMAIN conflicts : Range(conflicts[k].classes) \subseteq words
       /\ suggestions.called =>
            \A k \in DOMAIN PerTokenSuggestions : PerTokenSuggestions[k].original \in words

\* What does hold: the canonical engine takes exactly these words, in order,
\* and its per-token suggestions are about them.
SuggesterReadsClassAttributes ==
  ClassAttributeWords(input, 1) # <<>> =>
    /\ tokens.by = "suggester" => tokens.list = ClassAttributeWords(input, 1)
    /\ suggestions.called =>
         \A k \in DOMAIN PerTokenSuggestions :
           PerTokenSuggestions[k].original \in Range(ClassAttributeWords(input, 1))

\* The white-space-delimited words of the fragment and of each of its quoted
\* values.
RECURSIVE QuotedWords(_, _)
QuotedWords(s, i) ==
  IF i > Len(s) THEN {}
  ELSE IF s[i] \notin Quotes THEN QuotedWords(s, i + 1)
  ELSE LET q2 == RunEnd(s, i + 1, CharsOf(s) \ Quotes)
       IN Range(NonEmpty(Split(SubSeq(s, i + 1, q2 - 1)))) \cup QuotedWords(s, q2 + 1)
WholeWords(s) == Range(NonEmpty(Split(s))) \cup QuotedWords(s, 1)

\* C22: every extracted token is one complete white-space-delimited token of
\* the class list it was taken from, variants, sign, '!', decimal point,
\* fraction and brackets included; none is a piece of a longer class or a
\* text that is not in the input.
C22_TokensAreWholeWords ==
  tokens.by # "none" => Range(tokens.list) \subseteq WholeWords(input)

\* What does hold: the tokens of the canonical engine are whole words.
SuggesterTokensAreWholeWords ==
  tokens.by = "suggester" => Range(tokens.list) \subseteq WholeWords(input)

NoDuplicate(ss) == \A j, k \in DOMAIN ss : ss[j] = ss[k] => j = k
InOrderOfOccurrence(ss, s) ==
  \A j, k \in DOMAIN ss : j < k => IndexOf(s, ss[j]) <= IndexOf(s, ss[k])

\* C23: the token list of either engine has no duplicate and is in the order
\* of first occurrence in the fragment; a repeated class gives one token and
\* at most one per-token suggestion.
C23_TokensDistinctInOrder ==
  /\ tokens.by # "none" => NoDuplicate(tokens.list) /\ InOrderOfOccurrence(tokens.list, input)
  /\ suggestions.called => NoDuplicate(PerTokenSuggestions)

\* What does hold: the list of validator.extractClasses has no duplicate.
ValidatorTokensDistinct == tokens.by = "validator" => NoDuplicate(tokens.list)

\* The outcome of each rule for a class name, in the order of the rules:
\* decimal spacing, British spelling, leading '!', display-, width-, height-,
\* margin-, padding-, flex-grow, break-words, grey, text-regular/normal,
\* font-regular/standard, bracketed z-index, bracketed px spacing,
\* pseudo-element px.
RuleOutcomes(className) ==
  <<DecimalSpacing(className), BritishSpelling(className), LeadingImportant(className),
    Display(className), Width(className), Height(className), Margin(className),
    Padding(className), FlexGrow(className), BreakWords(className), Grey(className),
    TextRegular(className), FontRegular(className), ZIndex(className), PxSpacing(className),
    PseudoPx(className)>>
MatchingRules(className) ==
  {r \in DOMAIN RuleOutcomes(className) : RuleOutcomes(className)[r] # NoSuggestionFor}
\* The suggestion of the earliest matching rule, as a list of at most one.
EarliestOutcome(className) ==
  IF MatchingRules(className) = {} THEN <<>>
  ELSE <<RuleOutcomes(className)[CHOOSE r \in MatchingRules(className) :
                                   \A q \in MatchingRules(className) : r <= q]>>
RECURSIVE EarliestOutcomes(_)
EarliestOutcomes(classNames) ==
  IF classNames = <<>> THEN <<>>
  ELSE EarliestOutcome(Head(classNames)) \o EarliestOutcomes(Tail(classNames))

\* C24: for each extracted token getCanonicalSuggestionsSync gives at most
\* one per-token suggestion, that of the earliest rule of the fixed order
\* whose pattern matches the token, whatever the other tokens are: the
\* per-token suggestions are, token by token, the earliest outcomes.
C24_EarliestRulePerToken ==
  suggestions.called =>
    PerTokenSuggestions = EarliestOutcomes(extractClassesFromInput(input))

\* A token that two rules match (British spelling and leading '!') got the
\* suggestion of the earlier one, next to a token of the decimal rule.
C24_Witness ==
  /\ suggestions.called /\ input = <<"<", "p", " ", "c", "l", "a", "s", "s", "=", "\"", "m",
      "x", "-", "1", "3", ".", "0", " ", "!", "t", "e", "x", "t", "-", "c", "e", "n", "t", "r",
      "e", "\"", ">">>
  /\ MatchingRules(<<"!", "t", "e", "x", "t", "-", "c", "e", "n", "t", "r", "e">>) = {2, 3}
  /\ Len(PerTokenSuggestions) = 2
  /\ PerTokenSuggestions[2].canonical = <<"!", "t", "e", "x", "t", "-", "c", "e", "n", "t",
      "e", "r">>

\* className is [variants:][-]prop-[<n>px] with prop a spacing or inset
\* property and n an integer.
PxToken(className) ==
  PxParts(UtilityOf(className), SpacingAbbreviations \cup InsetProperties, TRUE)
IsPxToken(className) == IsVariants(VariantsOf(className)) /\ PxToken(className).ok
\* The length it denotes is negative: one of the two signs, not both, and n
\* is not zero.
DenotesNegative(className) ==
  /\ Magnitude(PxToken(className).px) # 0
  /\ PxToken(className).neg # (PxToken(className).px[1] = "-")
\* The entries of the allowed list nearest to |n| / 4, as texts.
NearestScales(className) ==
  LET n == Magnitude(PxToken(className).px)
  IN {HalvesText(h) : h \in {g \in Range(AllowedHalves) :
                               \A f \in Range(AllowedHalves) : Abs(n - 2 * g) <= Abs(n - 2 * f)}}

\* C25: the canonical suggested for a px token keeps its variants and its
\* property, has a '-' before the property exactly when the token denotes a
\* negative length, and ends in the allowed scale entry nearest to |n| / 4.
C25_PxToScaleKeepsSign ==
  suggestions.called =>
    \A k \in DOMAIN PerTokenSuggestions :
      LET g == PerTokenSuggestions[k]
      IN IsPxToken(g.original) =>
           \E scale \in NearestScales(g.original) :
             g.canonical = VariantsOf(g.original)
                             \o (IF DenotesNegative(g.original) THEN <<"-">> ELSE <<>>)
                             \o PxToken(g.original).prop \o <<"-">> \o scale

\* What does hold: the same for the tokens with at most one sign, the two
\* examples of the spec among them.
PxToScaleOneSign ==
  suggestions.called =>
    \A k \in DOMAIN PerTokenSuggestions :
      LET g == PerTokenSuggestions[k]
      IN IsPxToken(g.original) /\ ~(PxToken(g.original).neg /\ PxToken(g.original).px[1] = "-") =>
           \E scale \in NearestScales(g.original) :
             g.canonical = VariantsOf(g.original)
                             \o (IF DenotesNegative(g.original) THEN <<"-">> ELSE <<>>)
                             \o PxToken(g.original).prop \o <<"-">> \o scale
PxExamples ==
  suggestions.called /\ input = <<"m", "t", "-", "[", "2", "p", "x", "]", " ", "m", "t", "-",
      "[", "-", "2", "0", "p", "x", "]">> =>
    /\ PerTokenSuggestions[1].canonical = <<"m", "t", "-", "0", ".", "5">>
    /\ PerTokenSuggestions[2].canonical = <<"-", "m", "t", "-", "5">>

\* The decimal tokens: <p>-<d> with p a margin or padding abbreviation.
IsDecimalToken(className) == DecimalSpacing(className) # NoSuggestionFor
DecimalOf(className) ==
  DecimalParts(SubSeq(className, IndexOf(className, <<"-">>) + 1, Len(className)))
\* The doubled scale value at the least distance from d, the lower one of two.
NearestValid(className) ==
  LET d == DecimalOf(className)
      twice == 2 * ToNumber(d[1] \o d[2])
      den == PowerOfTen(Len(d[2]))
  IN CHOOSE h \in Range(ValidHalves) :
       \A g \in Range(ValidHalves) :
         \/ Abs(twice - h * den) < Abs(twice - g * den)
         \/ Abs(twice - h * den) = Abs(twice - g * den) /\ h <= g

\* C26: the canonical suggested for <p>-<d> is <p>-<v>, v the value of the
\* canonical scale at the least distance from d, the lower one when d is
\* halfway between two values.
C26_NearestValidValue ==
  suggestions.called =>
    \A k \in DOMAIN PerTokenSuggestions :
      LET g == PerTokenSuggestions[k]
      IN IsDecimalToken(g.original) =>
           g.canonical = SubSeq(g.original, 1, IndexOf(g.original, <<"-">>))
                           \o HalvesText(NearestValid(g.original))

\* 2.25 is halfway between 2 and 2.5 and went to 2; 0.7 went to 0.5.
C26_Witness ==
  /\ suggestions.called /\ input = <<"m", "t", "-", "2", ".", "2", "5", " ", "p", "-", "0",
      ".", "7">>
  /\ Len(PerTokenSuggestions) = 2
  /\ PerTokenSuggestions[1].canonical = <<"m", "t", "-", "2">>
  /\ PerTokenSuggestions[2].canonical = <<"p", "-", "0", ".", "5">>

\* C29: every suggestion of getCanonicalSuggestionsSync proposes a change:
\* its canonical differs from its original.
C29_EverySuggestionChanges ==
  suggestions.called =>
    \A k \in DOMAIN suggestions.list : suggestions.list[k].canonical # suggestions.list[k].original

\* What does hold: the per-token suggestions of the rules after the decimal
\* rule change the token.
LaterRulesChange ==
  suggestions.called =>
    \A k \in DOMAIN PerTokenSuggestions :
      \/ IsDecimalToken(PerTokenSuggestions[k].original)
      \/ PerTokenSuggestions[k].canonical # PerTokenSuggestions[k].original

\* ------------------------------------------------------- TailwindValidator
\* src/src/validators/tailwind-validator.ts and its service
\* (TailwindIntellisenseSimpleService, src/unnamed/part_000).
\* At most this many initialize calls, and as many shutdown calls, are
\* suspended at their await at one time.
MaxFlying == 1

NotInitialized == "TailwindValidator not initialized. Call initialize() first."
ServiceNotInitialized == "Service not initialized"

\* No initialize or shutdown call is suspended at its await.
Alone == flying.initialize = 0 /\ flying.shutdown = 0

\* A call of initialize or shutdown starts: it overlaps the suspended ones,
\* and the getClassesInfo call in progress, if there are any.
Overlap == [lifecycle EXCEPT !.overlapped = @ \/ ~Alone]
InfoOverlapped == IF info.at > 0 THEN [info EXCEPT !.alone = FALSE] ELSE info
Returned(call) == [lifecycle EXCEPT !.last = call]

\* initialize (lines 47-61) up to its await.  The call of the service's
\* initialize (part_000, lines 39-50) runs to its end at once: it has no
\* await and cannot throw.
ValidatorInitialize ==
  /\ IF isInitialized
       THEN /\ lifecycle' = [Overlap EXCEPT !.last = "initialized"]
            /\ UNCHANGED <<serviceIsInitialized, flying>>
       ELSE /\ flying.initialize < MaxFlying
            /\ serviceIsInitialized' = TRUE
            /\ flying' = [flying EXCEPT !.initialize = @ + 1]
            /\ lifecycle' = Overlap
  /\ info' = InfoOverlapped
  /\ UNCHANGED <<quietVars, textVars, suggestVars, isInitialized, lastQuery>>

\* initialize after its await (lines 55-56)
ValidatorInitializeCont ==
  /\ flying.initialize > 0
  /\ isInitialized' = TRUE
  /\ flying' = [flying EXCEPT !.initialize = @ - 1]
  /\ lifecycle' = Returned("initialized")
  /\ UNCHANGED <<quietVars, textVars, suggestVars, serviceIsInitialized, info, lastQuery>>

\* The continuation of shutdown that leaves the flag as it is.
ValidatorShutdownContKeepsFlag ==
  /\ flying.shutdown > 0
  /\ flying' = [flying EXCEPT !.shutdown = @ - 1]
  /\ lifecycle' = Returned("shutdown")
  /\ UNCHANGED <<quietVars, textVars, suggestVars, isInitialized, serviceIsInitialized, info,
                 lastQuery>>

\* shutdown (lines 199-204) up to its await; the service's shutdown
\* (part_000, lines 167-169) runs to its end at once.
ValidatorShutdown ==
  /\ IF isInitialized
       THEN /\ flying.shutdown < MaxFlying
            /\ serviceIsInitialized' = FALSE
            /\ flying' = [flying EXCEPT !.shutdown = @ + 1]
            /\ lifecycle' = Overlap
       ELSE /\ lifecycle' = [Overlap EXCEPT !.last = "shutdown"]
            /\ UNCHANGED <<serviceIsInitialized, flying>>
  /\ info' = InfoOverlapped
  /\ UNCHANGED <<quietVars, textVars, suggestVars, isInitialized, lastQuery>>

\* shutdown after its await (line 202)
ValidatorShutdownCont ==
  /\ flying.shutdown > 0
  /\ isInitialized' = FALSE
  /\ flying' = [flying EXCEPT !.shutdown = @ - 1]
  /\ lifecycle' = Returned("shutdown")
  /\ UNCHANGED <<quietVars, textVars, suggestVars, serviceIsInitialized, info, lastQuery>>

\* A ValidationResult (lines 8-15); error "" stands for undefined.
ValidationResult(isValid, className, cssProperties, error) ==
  [isValid |-> isValid, className |-> className, cssProperties |-> cssProperties,
   deprecated |-> FALSE, suggestions |-> <<>>, error |-> error]

\* The error a query of the validator ends with, "" when it returns: the test
\* of its first lines, then the test of the service (part_000, lines 56-58
\* and 156-158), whose error the catch block throws again.
QueryError == IF ~isInitialized THEN NotInitialized
              ELSE IF ~serviceIsInitialized THEN ServiceNotInitialized
              ELSE ""

BoolText(b) == IF b THEN <<"true">> ELSE <<"false">>

\* What each query returns for className when it does not throw: a list of
\* strings in value, or a ValidationResult in infos.
QueryValue(op, className) ==
  CASE op = "isTailwindClass" -> BoolText(IsValid(className))
    [] op = "getSuggestions" -> <<>>
    [] op = "getCSSProperties" -> CssProperties(className)
    [] op = "isDeprecated" -> BoolText(FALSE)
    [] OTHER -> <<>>
validateClass(className) ==
  ValidationResult(IsValid(className), className, CssProperties(className),
                   IF IsValid(className) THEN "" ELSE "Invalid Tailwind CSS class")

SingleQueries ==
  {"isTailwindClass", "validateClass", "getSuggestions", "getCSSProperties", "isDeprecated"}

\* isTailwindClass (lines 81-93), validateClass (98-117), getSuggestions
\* (122-133), getCSSProperties (138-150) and isDeprecated (155-167): the
\* outcome is fixed when the call is made, the service's methods have no
\* await.
ValidatorQuery(op, className) ==
  /\ lastQuery' =
       [op |-> op, className |-> className, error |-> QueryError,
        value |-> IF QueryError = "" THEN QueryValue(op, className) ELSE <<>>,
        infos |-> IF QueryError = "" /\ op = "validateClass"
                    THEN <<validateClass(className)>> ELSE <<>>,
        after |-> lifecycle.last, alone |-> Alone]
  /\ UNCHANGED <<quietVars, textVars, suggestVars, isInitialized, serviceIsInitialized, flying,
      info,
                 lifecycle>>

\* One turn of the loop of getClassesInfo (lines 179-190): validateClass, or
\* the result its catch block builds.
InfoOf(className) ==
  IF QueryError = "" THEN validateClass(className)
  ELSE ValidationResult(FALSE, className, <<>>,
         IF QueryError = NotInitialized THEN "Validation failed: TailwindValidator not initialized"
         ELSE "Validation failed: Service not initialized")

InfoReturned(results, after, alone) ==
  [op |-> "getClassesInfo", className |-> <<>>, error |-> "", value |-> <<>>, infos |-> results,
   after |-> after, alone |-> alone]

\* getClassesInfo (lines 172-194) up to the first await of its loop.
GetClassesInfo(classNames) ==
  /\ info.at = 0
  /\ IF ~isInitialized
       THEN /\ lastQuery' =
                 [InfoReturned(<<>>, lifecycle.last, Alone) EXCEPT !.error = NotInitialized]
            /\ info' = info
       ELSE IF classNames = <<>>
         THEN /\ lastQuery' = InfoReturned(<<>>, lifecycle.last, Alone)
              /\ info' = info
         ELSE /\ info' = [names |-> classNames, at |-> 1,
                          results |-> <<InfoOf(classNames[1])>>,
                          after |-> lifecycle.last, alone |-> Alone]
              /\ lastQuery' = lastQuery
  /\ UNCHANGED <<quietVars, textVars, suggestVars, isInitialized, serviceIsInitialized, flying,
                 lifecycle>>

\* getClassesInfo after an await: the next class, or the return of line 193.
GetClassesInfoCont ==
  /\ info.at > 0
  /\ IF info.at = Len(info.names)
       THEN /\ lastQuery' = InfoReturned(info.results, info.after, info.alone)
            /\ info' = NoInfo
       ELSE /\ info' = [info EXCEPT !.at = @ + 1,
                                    !.results = Append(@, InfoOf(info.names[info.at + 1]))]
            /\ lastQuery' = lastQuery
  /\ UNCHANGED <<quietVars, textVars, suggestVars, isInitialized, serviceIsInitialized, flying,
                 lifecycle>>

\* extractClasses (lines 66-74) on the text: it reads no field.
ExtractClassesCall ==
  /\ tokens' = [by |-> "validator", list |-> ExtractClasses(input)]
  /\ lastQuery' =
       [op |-> "extractClasses", className |-> input, error |-> "", value |-> <<>>,
           infos |-> <<>>,
        after |-> lifecycle.last, alone |-> Alone]
  /\ UNCHANGED <<quietVars, textVars, suggestions, isInitialized, serviceIsInitialized, flying,
      info,
                 lifecycle>>

\* The class names and lists the queries are called with, and the texts.
QueryNames == {<<"f", "l", "e", "x">>, <<"m", "t", "-", "4">>, <<"b", "o", "g", "u", "s">>}
InfoLists == {<<>>, <<<<"f", "l", "e", "x">>>>, <<<<"m", "t", "-", "4">>, <<"b", "o", "g", "u",
    "s">>>>}
ValidatorTexts == {<<"f", "l", "e", "x", " ", "m", "t", "-", "4">>, <<"<", "p", " ", "c", "l",
    "a", "s", "s", "=", "\"", "m", "t", "-", "4", " ", "m", "t", "-", "4", "\"", ">">>}

ValidatorInit ==
  /\ Quiet /\ NoSuggestion /\ Constructed
  /\ input \in ValidatorTexts
  /\ stage = "text" /\ path = "none" /\ conflicts = <<>>
  /\ chosen = [by |-> "none", conflict |-> NoConflict]
  /\ fixed = <<>> /\ refixed = <<>>

ValidatorNext ==
  \/ ValidatorInitialize
  \/ ValidatorInitializeCont
  \/ ValidatorShutdown
  \/ ValidatorShutdownCont
  \/ \E op \in SingleQueries, className \in QueryNames : ValidatorQuery(op, className)
  \/ \E classNames \in InfoLists : GetClassesInfo(classNames)
  \/ GetClassesInfoCont
  \/ ExtractClassesCall

ValidatorSpec == ValidatorInit /\ [][ValidatorNext]_vars

\* ------------------------------------------------------- validator claims
QueryOperations == SingleQueries \cup {"getClassesInfo"}
NotInitializedErrors == {NotInitialized, ServiceNotInitialized}
\* The last query was made, and ran, while no initialize or shutdown call
\* was suspended, and none of these calls ever overlapped another one: every
\* call was awaited before the next one was made.
InSequence == lastQuery.alone /\ ~lifecycle.overlapped
FailedInfos ==
  {k \in DOMAIN lastQuery.infos :
     lastQuery.infos[k].error \in {"Validation failed: TailwindValidator not initialized",
                                   "Validation failed: Service not initialized"}}

\* C30: in a sequence of initialize, shutdown and query calls, a query fails
\* with a 'not initialized' error exactly when no initialize call returned
\* since construction or since the last shutdown, and returns without any
\* failure otherwise; initialize and shutdown are idempotent, the two flags
\* are both set after any number of initialize calls and both clear after any
\* number of shutdown calls; extractClasses returns the same list in every
\* state.
C30_NotInitializedExactlyWhenNotReady ==
  /\ lastQuery.op \in QueryOperations /\ InSequence =>
       IF lastQuery.after = "initialized"
         THEN lastQuery.error = "" /\ FailedInfos = {}
         ELSE lastQuery.error \in NotInitializedErrors
  /\ Alone /\ ~lifecycle.overlapped =>
       /\ isInitialized = (lifecycle.last = "initialized")
       /\ serviceIsInitialized = isInitialized
  /\ tokens.by = "validator" => tokens.list = ExtractClasses(input)
  /\ lastQuery.op = "extractClasses" => lastQuery.error = ""

\* After initialize, shutdown, a second shutdown and their awaits a query
\* failed with the error of the validator, and extractClasses returned its
\* list in that state.
C30_Witness ==
  /\ InSequence /\ Alone
  /\ lifecycle.last = "shutdown" /\ lastQuery.after = "shutdown"
  /\ lastQuery.op = "isTailwindClass" /\ lastQuery.error = NotInitialized
  /\ tokens = [by |-> "validator", list |-> <<<<"f", "l", "e", "x">>, <<"m", "t", "-", "4">>>>]

\* A query that returned after initialize, initialize again and their awaits.
ReadyWitness ==
  /\ InSequence /\ lastQuery.op = "getClassesInfo" /\ lastQuery.after = "initialized"
  /\ Len(lastQuery.infos) = 2 /\ lastQuery.infos[1].isValid /\ ~lastQuery.infos[2].isValid

====
